---- MODULE Spec2Model ----
(***************************************************************************)
(* Model of the scenario-filtering engine of AvaScenarioMapper:           *)
(*   com3AvaScenFilter/avaScenFilter.py  filterScenarioResults,           *)
(*                                       runScenarioFilters               *)
(*   in1Utils/mapperUtils.py             normalizeAvaCols                 *)
(*   in2Matrix/avaPotMatrix.py           avaPotMatrix, rsize_from         *)
(*                                                                         *)
(* A DataFrame is a record [columns, rows]: the set of its column names   *)
(* and the sequence of its rows, each row a function from the column      *)
(* names to cell values.  A Python str is a sequence of one-character     *)
(* strings, so that strip / lower / upper / split / join are computed.    *)
(***************************************************************************)
EXTENDS Integers, Sequences, FiniteSets, TLC

\* ------------------------------------------------------------------ str
\* The characters that occur, in code-point order.
Alphabet ==
    << " ", ",", "/",
       "0", "1", "2", "3", "4", "5", "6", "7", "8", "9",
       "A", "B", "C", "D", "E", "F", "G", "H", "I", "J", "K", "L", "M",
       "N", "O", "P", "Q", "R", "S", "T", "U", "V", "W", "X", "Y", "Z",
       "a", "b", "c", "d", "e", "f", "g", "h", "i", "j", "k", "l", "m",
       "n", "o", "p", "q", "r", "s", "t", "u", "v", "w", "x", "y", "z" >>

Chars == {Alphabet[i] : i \in 1..Len(Alphabet)}

Ord == [c \in Chars |-> CHOOSE i \in 1..Len(Alphabet) : Alphabet[i] = c]

IsDigit(c) == Ord[c] \in 4..13
LowerChar == [c \in Chars |-> IF Ord[c] \in 14..39 THEN Alphabet[Ord[c] + 26] ELSE c]
UpperChar == [c \in Chars |-> IF Ord[c] \in 40..65 THEN Alphabet[Ord[c] - 26] ELSE c]

\* str.lower(), str.upper()
Lower(s) == [i \in 1..Len(s) |-> LowerChar[s[i]]]
Upper(s) == [i \in 1..Len(s) |-> UpperChar[s[i]]]

\* str.strip(): leading and trailing whitespace removed
RECURSIVE LStrip(_)
LStrip(s) == IF s # <<>> /\ Head(s) = " " THEN LStrip(Tail(s)) ELSE s

RECURSIVE RStrip(_)
RStrip(s) ==
    IF s # <<>> /\ s[Len(s)] = " " THEN RStrip(SubSeq(s, 1, Len(s) - 1)) ELSE s

Strip(s) == RStrip(LStrip(s))

\* a < b for str: lexicographic by code point
RECURSIVE StrLess(_, _)
StrLess(a, b) ==
    IF b = <<>> THEN FALSE
    ELSE IF a = <<>> THEN TRUE
    ELSE IF Head(a) = Head(b) THEN StrLess(Tail(a), Tail(b))
    ELSE Ord[Head(a)] < Ord[Head(b)]

\* Mutant: the strings in descending order.
RECURSIVE SortedStrs_Mut(_)
SortedStrs_Mut(S) ==
    IF S = {} THEN <<>>
    ELSE LET m == CHOOSE x \in S : \A y \in S \ {x} : StrLess(y, x)
         IN  <<m>> \o SortedStrs_Mut(S \ {m})

\* sorted(S) for a set of str
RECURSIVE SortedStrs(_)
SortedStrs(S) ==
    IF S = {} THEN <<>>
    ELSE LET m == CHOOSE x \in S : \A y \in S \ {x} : StrLess(x, y)
         IN  <<m>> \o SortedStrs(S \ {m})

\* sep.join(list)
RECURSIVE Join(_, _)
Join(sep, list) ==
    IF list = <<>> THEN <<>>
    ELSE IF Len(list) = 1 THEN list[1]
    ELSE list[1] \o sep \o Join(sep, Tail(list))

\* s.split(","): the pieces between commas, empty pieces included
RECURSIVE SplitComma(_)
SplitComma(s) ==
    IF \A i \in 1..Len(s) : s[i] # ","
    THEN <<s>>
    ELSE LET k == CHOOSE i \in 1..Len(s) :
                     s[i] = "," /\ \A j \in 1..(i - 1) : s[j] # ","
         IN  <<SubSeq(s, 1, k - 1)>> \o SplitComma(SubSeq(s, k + 1, Len(s)))

\* int(v) for a str: optional surrounding whitespace around decimal digits
CanInt(s) ==
    LET t == Strip(s) IN t # <<>> /\ \A i \in 1..Len(t) : IsDigit(t[i])

RECURSIVE DigitsValue(_)
DigitsValue(t) ==
    IF t = <<>> THEN 0
    ELSE 10 * DigitsValue(SubSeq(t, 1, Len(t) - 1)) + (Ord[t[Len(t)]] - 4)

IntOf(s) == DigitsValue(Strip(s))

\* ------------------------------------------------------------ sequences
Range(s) == {s[i] : i \in 1..Len(s)}

RECURSIVE Flatten(_)
Flatten(ss) == IF ss = <<>> THEN <<>> ELSE Head(ss) \o Flatten(Tail(ss))

Perms(n) ==
    {p \in [1..n -> 1..n] : \A i, j \in 1..n : i # j => p[i] # p[j]}

\* ------------------------------------------------- Python criteria values
\* A criteria field holds None, a str or a list.
PyNone == [t |-> "none", v |-> <<>>]
PyStr(s) == [t |-> "str", v |-> s]
PyList(l) == [t |-> "list", v |-> l]
PyInt(n) == [t |-> "int", v |-> n]

\* truthiness of a criteria field: None, "" and [] are falsy
Truthy(val) == val.t # "none" /\ val.v # <<>>

\* the items a for-loop or set() sees: a str iterates over its characters
Items(val) ==
    IF val.t = "str" THEN [i \in 1..Len(val.v) |-> <<val.v[i]>>] ELSE val.v

\* ------------------------------------------------------------ DataFrame
\* A DataFrame: [columns |-> set of column names, rows |-> sequence of rows],
\* every row a function with domain columns.  Numeric cells hold integers.
DataFrame(cols, rows) == [columns |-> cols, rows |-> rows]

\* df.empty
IsEmpty(df) == Len(df.rows) = 0

\* df[mask]: the rows whose entry of the boolean mask is true, in order
FilterRows(df, mask) ==
    LET idx == SelectSeq([i \in 1..Len(df.rows) |-> i], LAMBDA i : mask[i])
    IN  DataFrame(df.columns, [k \in 1..Len(idx) |-> df.rows[idx[k]]])

\* df.iloc[0:0]: no rows, same columns
NoRows(df) == DataFrame(df.columns, <<>>)

\* the values of column c
ColumnValues(df, c) == {df.rows[i][c] : i \in 1..Len(df.rows)}

\* df[c] = df[c].map(fn) for an existing column c
MapColumn(df, c, fn) ==
    DataFrame(df.columns,
              [i \in 1..Len(df.rows) |-> [df.rows[i] EXCEPT ![c] = fn[@]]])

\* Mutant: the assignment of a scalar does not add a new column.
AssignColumn_Mut(df, c, val) ==
    IF c \notin df.columns THEN df
    ELSE DataFrame(df.columns,
                   [i \in 1..Len(df.rows) |-> [df.rows[i] EXCEPT ![c] = val]])

\* df[c] = val (a scalar), adding the column when it is new
AssignColumn(df, c, val) ==
    DataFrame(df.columns \cup {c},
              [i \in 1..Len(df.rows) |->
                  [x \in df.columns \cup {c} |->
                      IF x = c THEN val ELSE df.rows[i][x]]])

\* df.rename(columns=map): map is a function from old names to new names
RenameColumns(df, map) ==
    LET new(c) == IF c \in DOMAIN map THEN map[c] ELSE c
        old(n) == CHOOSE c \in df.columns : new(c) = n
        cols == {new(c) : c \in df.columns}
    IN  DataFrame(cols,
                  [i \in 1..Len(df.rows) |-> [n \in cols |-> df.rows[i][old(n)]]])

\* The local variable gdf of a function together with the caller's object:
\* alias says that gdf still is the caller's object, so that an assignment
\* to a column of gdf changes the caller's table.  log is the set of
\* warnings and errors logged so far.
Frame(df, shared, alias, log) ==
    [df |-> df, shared |-> shared, alias |-> alias, log |-> log]

\* gdf[c] = ...  (in place)
InPlace(f, df) == Frame(df, IF f.alias THEN df ELSE f.shared, f.alias, f.log)

\* gdf = <a new object>
Rebind(f, df) == Frame(df, f.shared, FALSE, f.log)

\* log.warning(msg), log.error(msg)
Warn(f, msg) == Frame(f.df, f.shared, f.alias, f.log \cup {msg})

\* ------------------------------------------- mapperUtils.normalizeAvaCols
\* The spellings of the mobility-code column names.
ColSpelling ==
    [c \in {"PPM", "ppm", "Ppm", "PEM", "pem", "Pem"} |->
        CASE c = "PPM" -> <<"P", "P", "M">>
          [] c = "ppm" -> <<"p", "p", "m">>
          [] c = "Ppm" -> <<"P", "p", "m">>
          [] c = "PEM" -> <<"P", "E", "M">>
          [] c = "pem" -> <<"p", "e", "m">>
          [] c = "Pem" -> <<"P", "e", "m">>]

\* c.upper() for a column name
ColUpper(c) ==
    IF c \in DOMAIN ColSpelling
    THEN CHOOSE n \in DOMAIN ColSpelling : ColSpelling[n] = Upper(ColSpelling[c])
    ELSE c

\* str(c).lower() in ("ppm", "pem")
IsCodeColumn(c) ==
    /\ c \in DOMAIN ColSpelling
    /\ Lower(ColSpelling[c]) \in {ColSpelling["ppm"], ColSpelling["pem"]}

\* Mutant: at most one trailing blank is removed.
NormStr_Mut(s) ==
    LET l == Lower(s)
    IN  IF l # <<>> /\ l[Len(l)] = " " THEN SubSeq(l, 1, Len(l) - 1) ELSE l

\* .astype(str).str.lower().str.strip()
NormStr(s) == Strip(Lower(s))

\* The columns of a table whose cells are text (dtype object) although the
\* column is a numeric one: a table as read from a file carries them in the
\* field text; a table without the field has integer cells in these columns.
TextColumns(df) == IF "text" \in DOMAIN df THEN df.text ELSE {}

ReadTable(cols, rows, text) ==
    IF text = {} THEN DataFrame(cols, rows)
    ELSE [columns |-> cols, rows |-> rows, text |-> text]

NumericColumns == {"subC", "elevMin", "elevMax", "rSize", "PEM", "PPM"}

\* df[col] = pd.to_numeric(df[col], errors="coerce") for the numeric columns
\* present: a text cell of decimal digits becomes its integer, an integer
\* cell stays as it is
ToNumeric(df, text) ==
    LET cols == NumericColumns \cap df.columns
    IN  DataFrame(df.columns,
            [i \in 1..Len(df.rows) |->
                [c \in df.columns |->
                    IF c \in cols \cap text
                    THEN IntOf(df.rows[i][c])
                    ELSE df.rows[i][c]]])

\* rename_map = {c: c.upper() ...}; if rename_map: gdf = gdf.rename(...): a
\* new object whenever a mobility-code column of any spelling is present
RenameCodeColumns(f) ==
    LET codeCols == {c \in f.df.columns : IsCodeColumn(c)}
        rename_map == [c \in codeCols |-> ColUpper(c)]
        renamed == RenameColumns(f.df, rename_map)
    IN  IF codeCols # {}
        THEN Rebind(f, ReadTable(renamed.columns, renamed.rows,
                                 {ColUpper(c) : c \in TextColumns(f.df)}))
        ELSE f

\* for col in [...]: if col in gdf.columns: gdf[col] = pd.to_numeric(...)
ConvertNumericColumns(f) ==
    IF NumericColumns \cap f.df.columns # {}
    THEN InPlace(f, ToNumeric(f.df, TextColumns(f.df)))
    ELSE f

\* if col in gdf.columns: gdf[col] = gdf[col].astype(str).str.lower().str.strip()
NormalizeColumn(f, col) ==
    IF col \in f.df.columns
    THEN InPlace(f, MapColumn(f.df, col, [s \in ColumnValues(f.df, col) |-> NormStr(s)]))
    ELSE f

normalizeAvaCols(f) ==
    NormalizeColumn(
        NormalizeColumn(ConvertNumericColumns(RenameCodeColumns(f)), "flow"),
        "modType")

\* ----------------------------------------------- avaPotMatrix.avaPotMatrix
sRes == <<"r", "e", "s">>
sRel == <<"r", "e", "l">>
sResRel == <<"r", "e", "s", " ", "/", " ", "r", "e", "l">>
sVeryHigh == <<"v", "e", "r", "y", " ", "h", "i", "g", "h">>
sHigh == <<"h", "i", "g", "h">>
sModerate == <<"m", "o", "d", "e", "r", "a", "t", "e">>
sModerat == <<"m", "o", "d", "e", "r", "a", "t">>
sLow == <<"l", "o", "w">>

\* Mutant: a difference of 3 falls through to the last branch.
rsize_from_Mut(ppm, pem) ==
    LET d == ppm - pem
    IN  IF d = 0 THEN 5 ELSE IF d = 1 THEN 4 ELSE IF d = 2 THEN 3 ELSE 1

\* rsize_from: the conditional chain over d = int(ppm) - int(pem)
rsize_from(ppm, pem) ==
    LET d == ppm - pem
    IN  IF d = 0 THEN 5 ELSE IF d = 1 THEN 4 ELSE IF d = 2 THEN 3
        ELSE IF d = 3 THEN 2 ELSE 1

\* Mutant: the matrix holds a block of size class 1.
blocks_Mut ==
    << <<sHigh, 1, << <<2, 2, sRel>> >> >>,
       <<sHigh, 2, << <<5, 2, sResRel>>, <<2, 2, sRel>> >> >> >>

\* one block of the matrix: <<dist_pot, size_pot, entries>>
blocks ==
    << <<sVeryHigh, 5, << <<5, 5, sResRel>>, <<4, 4, sResRel>>, <<3, 3, sResRel>>, <<2, 2, sResRel>> >> >>,
       <<sVeryHigh, 4, << <<5, 4, sResRel>>, <<4, 4, sResRel>>, <<3, 3, sResRel>>, <<2, 2, sResRel>> >> >>,
       <<sVeryHigh, 3, << <<5, 3, sResRel>>, <<4, 3, sResRel>>, <<3, 3, sResRel>>, <<2, 2, sResRel>> >> >>,
       <<sVeryHigh, 2, << <<5, 2, sResRel>>, <<4, 2, sResRel>>, <<3, 2, sResRel>>, <<2, 2, sResRel>> >> >>,
       <<sHigh, 4, << <<5, 4, sResRel>>, <<4, 3, sResRel>>, <<3, 2, sResRel>>, <<2, 2, sRel>> >> >>,
       <<sHigh, 3, << <<5, 3, sResRel>>, <<4, 3, sResRel>>, <<3, 2, sResRel>>, <<2, 2, sRel>> >> >>,
       <<sHigh, 2, << <<5, 2, sResRel>>, <<4, 2, sResRel>>, <<3, 2, sResRel>>, <<2, 2, sRel>> >> >>,
       <<sModerate, 3, << <<5, 3, sResRel>>, <<4, 2, sResRel>>, <<3, 3, sRel>>, <<2, 2, sRel>> >> >>,
       <<sModerate, 2, << <<5, 2, sResRel>>, <<4, 2, sResRel>>, <<3, 3, sRel>>, <<2, 2, sRel>> >> >>,
       <<sLow, 2, << <<5, 2, sResRel>>, <<4, 4, sRel>>, <<3, 3, sRel>>, <<2, 2, sRel>> >> >> >>

LegendColumns ==
    {"AvaDistributionPotential", "AvaSizePotential", "PPM", "PEM", "rSize", "modType"}

LegendRow(dist_pot, size_pot, ppm, pem, rsize, mod) ==
    [AvaDistributionPotential |-> dist_pot, AvaSizePotential |-> size_pot,
     PPM |-> ppm, PEM |-> pem, rSize |-> rsize, modType |-> mod]

\* The columns Source and Version, two constants no filter reads, are left out.
avaPotMatrix ==
    DataFrame(LegendColumns,
        Flatten([b \in 1..Len(blocks) |->
            [e \in 1..Len(blocks[b][3]) |->
                LET entry == blocks[b][3][e]
                IN  LegendRow(blocks[b][1], blocks[b][2], entry[1], entry[2],
                              rsize_from(entry[1], entry[2]), entry[3])]]))

\* ------------------------------------ avaScenFilter.filterScenarioResults
\* _asList
AsList(val) ==
    IF val.t = "none" THEN <<>>
    ELSE IF val.t = "str"
    THEN LET parts == SplitComma(val.v)
             stripped == [i \in 1..Len(parts) |-> Strip(parts[i])]
         IN  SelectSeq(stripped, LAMBDA v : v # <<>>)
    ELSE val.v

sOr == <<"o", "r">>
sAnd == <<"a", "n", "d">>

\* (criteria.get("regionMode") or "or").strip().lower()
RegionModeOf(criteria) ==
    Lower(Strip(IF Truthy(criteria.regionMode) THEN criteria.regionMode.v ELSE sOr))

\* the guard that normalizes the input columns
NormalizeGuard(f) ==
    IF ~ ( /\ "flow" \in f.df.columns
           /\ ("PEM" \in f.df.columns \/ "pem" \in f.df.columns)
           /\ ("PPM" \in f.df.columns \/ "ppm" \in f.df.columns) )
    THEN normalizeAvaCols(f)
    ELSE f

\* Mutant: the two masks are always combined with "or".
RegionKeep_Mut(row, hasLk, hasLwd, lkSet, lwdSet, regionMode) ==
    \/ hasLk /\ row["LKGebietID"] \in lkSet
    \/ hasLwd /\ row["LWDGebietID"] \in lwdSet

\* Mutant: with "and" and two id sets, a row needs both memberships even
\* when the column of one scheme is absent.
RegionKeep_MutStrict(row, hasLk, hasLwd, lkSet, lwdSet, regionMode) ==
    IF regionMode = sAnd /\ lkSet # {} /\ lwdSet # {}
    THEN /\ hasLk /\ hasLwd
         /\ row["LKGebietID"] \in lkSet /\ row["LWDGebietID"] \in lwdSet
    ELSE IF hasLk /\ hasLwd
    THEN row["LKGebietID"] \in lkSet \/ row["LWDGebietID"] \in lwdSet
    ELSE IF hasLk THEN row["LKGebietID"] \in lkSet
    ELSE row["LWDGebietID"] \in lwdSet

\* Section 1: the row mask of the region filters
RegionKeep(row, hasLk, hasLwd, lkSet, lwdSet, regionMode) ==
    IF hasLk /\ hasLwd
    THEN IF regionMode = sAnd
         THEN row["LKGebietID"] \in lkSet /\ row["LWDGebietID"] \in lwdSet
         ELSE row["LKGebietID"] \in lkSet \/ row["LWDGebietID"] \in lwdSet
    ELSE IF hasLk THEN row["LKGebietID"] \in lkSet
    ELSE row["LWDGebietID"] \in lwdSet

RegionStage(f, criteria) ==
    LET LKRegionID == AsList(criteria.LKRegionID)
        LwdRegionID == AsList(criteria.LwdRegionID)
        regionMode == RegionModeOf(criteria)
        hasLk == LKRegionID # <<>> /\ "LKGebietID" \in f.df.columns
        hasLwd == LwdRegionID # <<>> /\ "LWDGebietID" \in f.df.columns
        f1 == IF LKRegionID # <<>> /\ "LKGebietID" \notin f.df.columns
              THEN Warn(f, "Region filter requested (LK) but column 'LKGebietID' not found.")
              ELSE f
        f2 == IF LwdRegionID # <<>> /\ "LWDGebietID" \notin f.df.columns
              THEN Warn(f1, "Region filter requested (LWD) but column 'LWDGebietID' not found.")
              ELSE f1
        keep(row) == RegionKeep(row, hasLk, hasLwd, Range(LKRegionID),
                                Range(LwdRegionID), regionMode)
    IN  IF hasLk \/ hasLwd
        THEN Rebind(f2, FilterRows(f2.df, [i \in 1..Len(f2.df.rows) |-> keep(f2.df.rows[i])]))
        ELSE f2

\* Mutant: a subC criterion whose column is missing empties the table, as
\* the classification join does.
SubCFilter_Mut(f, criteria) ==
    IF ~ Truthy(criteria.subCs) THEN f
    ELSE IF "subC" \notin f.df.columns
    THEN Rebind(Warn(f, "Filter subC requested, but column 'subC' not found."), NoRows(f.df))
    ELSE LET keep(row) == row["subC"] \in Range(Items(criteria.subCs))
         IN  Rebind(f, FilterRows(f.df, [i \in 1..Len(f.df.rows) |-> keep(f.df.rows[i])]))

\* Section 2: the scenario filters, one operator per criterion
SubCFilter(f, criteria) ==
    IF ~ Truthy(criteria.subCs) THEN f
    ELSE IF "subC" \notin f.df.columns
    THEN Warn(f, "Filter subC requested, but column 'subC' not found.")
    ELSE LET keep(row) == row["subC"] \in Range(Items(criteria.subCs))
         IN  Rebind(f, FilterRows(f.df, [i \in 1..Len(f.df.rows) |-> keep(f.df.rows[i])]))

SectorFilter(f, criteria) ==
    IF ~ Truthy(criteria.sectors) THEN f
    ELSE IF "sector" \notin f.df.columns
    THEN Warn(f, "Filter sector requested, but column 'sector' not found.")
    ELSE LET secSet == {Upper(Strip(s)) : s \in Range(Items(criteria.sectors))}
             f1 == InPlace(f, MapColumn(f.df, "sector", [s \in ColumnValues(f.df, "sector") |-> Strip(Upper(s))]))
             keep(row) == row["sector"] \in secSet
         IN  Rebind(f1, FilterRows(f1.df, [i \in 1..Len(f1.df.rows) |-> keep(f1.df.rows[i])]))

FlowFilter(f, criteria) ==
    IF ~ Truthy(criteria.flows) THEN f
    ELSE IF "flow" \notin f.df.columns
    THEN Warn(f, "Filter flow requested, but column 'flow' not found.")
    ELSE LET flowSet == {Lower(Strip(s)) : s \in Range(Items(criteria.flows))}
             f1 == InPlace(f, MapColumn(f.df, "flow", [s \in ColumnValues(f.df, "flow") |-> NormStr(s)]))
             keep(row) == row["flow"] \in flowSet
         IN  Rebind(f1, FilterRows(f1.df, [i \in 1..Len(f1.df.rows) |-> keep(f1.df.rows[i])]))

\* Mutant: the lower elevation bound is exclusive.
ElevMinKeep_Mut(cell, bound) == cell > bound

ElevMinKeep(cell, bound) == cell >= bound

ElevMinFilter(f, criteria) ==
    IF criteria.elevMin.t = "none" THEN f
    ELSE IF "elevMin" \notin f.df.columns
    THEN Warn(f, "Filter elevMin requested, but column 'elevMin' not found.")
    ELSE LET keep(row) == ElevMinKeep(row["elevMin"], criteria.elevMin.v)
         IN  Rebind(f, FilterRows(f.df, [i \in 1..Len(f.df.rows) |-> keep(f.df.rows[i])]))

ElevMaxKeep(cell, bound) == cell <= bound

ElevMaxFilter(f, criteria) ==
    IF criteria.elevMax.t = "none" THEN f
    ELSE IF "elevMax" \notin f.df.columns
    THEN Warn(f, "Filter elevMax requested, but column 'elevMax' not found.")
    ELSE LET keep(row) == ElevMaxKeep(row["elevMax"], criteria.elevMax.v)
         IN  Rebind(f, FilterRows(f.df, [i \in 1..Len(f.df.rows) |-> keep(f.df.rows[i])]))

ScenarioStage(f, criteria) ==
    ElevMaxFilter(
        ElevMinFilter(
            FlowFilter(
                SectorFilter(
                    SubCFilter(f, criteria), criteria), criteria), criteria), criteria)

\* df.sort_values: the orders a sort can leave the rows in.  before holds
\* the pairs <<a, b>> of positions where row a sorts strictly before row b.  A stable sort keeps rows that compare
\* equal in their order; the default kind (quicksort) of a single-column sort
\* is not stable, so any order of such rows is a possible result.
SortOutcomes(rows, before, stable) ==
    LET n == Len(rows)
        ok(p) == \A i, j \in 1..n :
                     i < j =>
                       /\ <<p[j], p[i]>> \notin before
                       /\ (stable /\ <<p[i], p[j]>> \notin before) => p[i] < p[j]
    IN  {[i \in 1..n |-> rows[p[i]]] : p \in {q \in Perms(n) : ok(q)}}

RowKey(row, cols) == [c \in cols |-> row[c]]

\* drop_duplicates(subset=cols, keep="first") on a sequence of rows
RECURSIVE DropDuplicates(_, _)
DropDuplicates(rows, cols) ==
    IF rows = <<>> THEN <<>>
    ELSE LET n == Len(rows)
             last == rows[n]
             seen == \E j \in 1..(n - 1) : RowKey(rows[j], cols) = RowKey(last, cols)
         IN  DropDuplicates(SubSeq(rows, 1, n - 1), cols)
                \o (IF seen THEN <<>> ELSE <<last>>)

\* Mutant: the variant "moderat" is not replaced.
PotsOf_Mut(avaDistPot) ==
    LET given == IF avaDistPot.t = "str" THEN <<avaDistPot.v>> ELSE avaDistPot.v
        kept == SelectSeq(given, LAMBDA p : Strip(p) # <<>>)
    IN  [i \in 1..Len(kept) |-> Strip(Lower(kept[i]))]

\* Section 3: the requested potentials, lower-cased, trimmed, canonicalized
PotsOf(avaDistPot) ==
    LET given == IF avaDistPot.t = "str" THEN <<avaDistPot.v>> ELSE avaDistPot.v
        kept == SelectSeq(given, LAMBDA p : Strip(p) # <<>>)
        norm == [i \in 1..Len(kept) |-> Strip(Lower(kept[i]))]
    IN  [i \in 1..Len(norm) |-> IF norm[i] = sModerat THEN sModerate ELSE norm[i]]

\* int(avaSizePot) succeeds
SizeParses(avaSizePot) == avaSizePot.t = "int" \/ CanInt(avaSizePot.v)

SizeRefOf(avaSizePot) ==
    IF avaSizePot.t = "int" THEN avaSizePot.v ELSE IntOf(avaSizePot.v)

\* legAll: the legend copy with normalized labels
LegAll(legend) ==
    LET pot == "AvaDistributionPotential"
        leg1 == MapColumn(legend, pot, [s \in ColumnValues(legend, pot) |-> NormStr(s)])
    IN  MapColumn(leg1, "modType", [s \in ColumnValues(leg1, "modType") |-> NormStr(s)])

\* Mutant: the legend selection ignores the reference size class.
LegSelKeep_Mut(row, pots, sizeRef) ==
    row["AvaDistributionPotential"] \in Range(pots)

LegSelKeep(row, pots, sizeRef) ==
    row["AvaDistributionPotential"] \in Range(pots) /\ row["AvaSizePotential"] = sizeRef

LegSel(legend, pots, sizeRef) ==
    LET legAll == LegAll(legend)
    IN  FilterRows(legAll, [i \in 1..Len(legAll.rows) |->
                               LegSelKeep(legAll.rows[i], pots, sizeRef)])

JoinKeys == {"PPM", "PEM", "rSize", "modType"}

\* Mutant: the double tag "res / rel" of the selection is not expanded.
Allowed_Mut(legSel) ==
    LET keys == [i \in 1..Len(legSel.rows) |-> RowKey(legSel.rows[i], JoinKeys)]
        norm == [i \in 1..Len(keys) |-> [keys[i] EXCEPT !["modType"] = NormStr(@)]]
    IN  DropDuplicates(norm, JoinKeys)

\* Mutant: the expanded join keys are not deduplicated.
Allowed_MutDup(legSel) ==
    LET keys == [i \in 1..Len(legSel.rows) |-> RowKey(legSel.rows[i], JoinKeys)]
        norm == [i \in 1..Len(keys) |-> [keys[i] EXCEPT !["modType"] = NormStr(@)]]
        both == SelectSeq(norm, LAMBDA r : r["modType"] = sResRel)
        rest == SelectSeq(norm, LAMBDA r : r["modType"] # sResRel)
        asRes == [i \in 1..Len(both) |-> [both[i] EXCEPT !["modType"] = sRes]]
        asRel == [i \in 1..Len(both) |-> [both[i] EXCEPT !["modType"] = sRel]]
    IN  rest \o asRes \o asRel

\* allowed: the join keys of the selection, "res / rel" expanded, deduplicated
Allowed(legSel) ==
    LET keys == [i \in 1..Len(legSel.rows) |-> RowKey(legSel.rows[i], JoinKeys)]
        norm == [i \in 1..Len(keys) |-> [keys[i] EXCEPT !["modType"] = NormStr(@)]]
        both == SelectSeq(norm, LAMBDA r : r["modType"] = sResRel)
        rest == SelectSeq(norm, LAMBDA r : r["modType"] # sResRel)
        asRes == [i \in 1..Len(both) |-> [both[i] EXCEPT !["modType"] = sRes]]
        asRel == [i \in 1..Len(both) |-> [both[i] EXCEPT !["modType"] = sRel]]
    IN  DropDuplicates(rest \o asRes \o asRel, JoinKeys)

\* Mutant: the join compares the codes and the geometry role, not rSize.
Merge_Mut(df, allowed) ==
    DataFrame(df.columns,
        SelectSeq(df.rows,
            LAMBDA r : \E k \in 1..Len(allowed) :
                          RowKey(allowed[k], JoinKeys \ {"rSize"})
                              = RowKey(r, JoinKeys \ {"rSize"})))

\* gdf.merge(allowed, on=JoinKeys, how="inner"): one output row per pair of
\* a data row and an allowed row with equal keys, in the order of the data
Merge(df, allowed) ==
    DataFrame(df.columns,
        Flatten([i \in 1..Len(df.rows) |->
            LET hits == SelectSeq(allowed,
                            LAMBDA a : a = RowKey(df.rows[i], JoinKeys))
            IN  [k \in 1..Len(hits) |-> df.rows[i]]]))

\* Mutant: the rel rows are ordered by descending rSize only.
RelOnlySorts_Mut(rows, cols) ==
    LET pos == 1..Len(rows)
    IN  IF "rSize" \notin cols THEN {rows}
        ELSE SortOutcomes(rows,
                          {q \in pos \X pos : rows[q[1]]["rSize"] > rows[q[2]]["rSize"]},
                          TRUE)

\* size=1, rel-only: the sort before the one-row-per-PRA reduction
RelOnlySorts(rows, cols) ==
    LET hasPem == "PEM" \in cols
        hasSize == "rSize" \in cols
        pos == 1..Len(rows)
        first(a, b) ==
            IF hasPem /\ hasSize
            THEN a["PEM"] < b["PEM"] \/ (a["PEM"] = b["PEM"] /\ a["rSize"] > b["rSize"])
            ELSE IF hasPem THEN a["PEM"] < b["PEM"]
            ELSE a["rSize"] > b["rSize"]
    IN  IF ~ hasPem /\ ~ hasSize THEN {rows}
        ELSE SortOutcomes(rows, {q \in pos \X pos : first(rows[q[1]], rows[q[2]])},
                          hasPem /\ hasSize)

\* A step of the function ends in "raise", "return" (f.df is returned) or
\* "continue" (the next section runs on f).
Ending(status, exit, f) == [status |-> status, exit |-> exit, f |-> f]

\* Mutant: without a modType column the rel-only mode is skipped with a
\* warning, as the attribute filters are, instead of abandoning the scenario.
RelOnlyNoModType_Mut(f) ==
    Ending("continue", "",
           Warn(f, "Size=1 rel-only mode requested, but dataset has no 'modType' column."))

\* size=1 on a table without a modType column: log.error, return no rows
RelOnlyNoModType(f) ==
    Ending("return", "no-modType",
           Rebind(Warn(f, "Size=1 rel-only mode requested, but dataset has no 'modType' column."),
                  NoRows(f.df)))

RelOnlyBranch(f) ==
    IF "modType" \notin f.df.columns
    THEN {RelOnlyNoModType(f)}
    ELSE LET relOnly == FilterRows(f.df, [i \in 1..Len(f.df.rows) |->
                                              f.df.rows[i]["modType"] = sRel])
         IN  IF IsEmpty(relOnly)
             THEN {Ending("return", "rel-empty",
                          Rebind(Warn(f, "Legend size=1 rel-only mode: no rel rows available after scenario filters."),
                                 relOnly))}
             ELSE IF "praID" \in relOnly.columns
             THEN {Ending("continue", "",
                          Rebind(f, DataFrame(relOnly.columns, DropDuplicates(sorted, {"praID"})))) :
                      sorted \in RelOnlySorts(relOnly.rows, relOnly.columns)}
             ELSE {Ending("continue", "", Rebind(f, relOnly))}

JoinBranch(f, legSel) ==
    IF ~ (JoinKeys \subseteq f.df.columns)
    THEN {Ending("return", "join-missing",
                 Rebind(Warn(f, "Legend merge requested but dataset missing one of PPM/PEM/rSize/modType."),
                        NoRows(f.df)))}
    ELSE {Ending("continue", "", Rebind(f, Merge(f.df, Allowed(legSel))))}

LegendStage(f, criteria, legend) ==
    LET avaDistPot == criteria.AvaDistributionPotential
        avaSizePot == criteria.AvaSizePotential
    IN  IF ~ (Truthy(avaDistPot) /\ avaSizePot.t # "none")
        THEN {Ending("continue", "", f)}
        ELSE IF ~ SizeParses(avaSizePot)
        THEN {Ending("raise", "int(avaSizePot)", f)}
        ELSE
        LET pots == PotsOf(avaDistPot)
            sizeRef == SizeRefOf(avaSizePot)
            rename_map ==
                [c \in {x \in {"ppm", "pem"} :
                           x \in f.df.columns /\ ColUpper(x) \notin f.df.columns}
                    |-> ColUpper(c)]
            f1 == IF DOMAIN rename_map # {}
                  THEN Rebind(f, RenameColumns(f.df, rename_map))
                  ELSE f
            \* the Int64 casts leave the integer cells of PPM, PEM, rSize
            f2 == IF "modType" \in f1.df.columns
                  THEN InPlace(f1, MapColumn(f1.df, "modType", [s \in ColumnValues(f1.df, "modType") |-> NormStr(s)]))
                  ELSE f1
            legSel == LegSel(legend, pots, sizeRef)
        IN  IF IsEmpty(legSel)
            THEN {Ending("return", "legend-empty",
                         Rebind(Warn(f2, "Legend selection empty. Skipping scenario."),
                                NoRows(f2.df)))}
            ELSE
            LET stamped ==
                    AssignColumn(
                        AssignColumn(f2.df, "AvaDistributionPotential",
                                     Join(<<",">>, SortedStrs(Range(pots)))),
                        "AvaSizePotential", sizeRef)
                f3 == Rebind(f2, stamped)
            IN  IF sizeRef = 1 THEN RelOnlyBranch(f3) ELSE JoinBranch(f3, legSel)

\* Section 4: deduplication
GroupCols ==
    {"praID", "praAreaM", "praElevMin", "praElevMax", "praElevMean",
     "praElevBand", "praElevBandRule", "praAreaSized",
     "LKGebietID", "LKGebiet", "LKRegion", "LWDGebietID",
     "modType", "subC", "sector", "elevMin", "elevMax", "flow"}

\* Mutant: the rule is applied whatever the flag says.
DedupApplies_Mut(df, criteria) ==
    "rSize" \in df.columns /\ ~ IsEmpty(df)

DedupApplies(df, criteria) ==
    criteria.applySingleRsizeRule /\ "rSize" \in df.columns /\ ~ IsEmpty(df)

RSizeSorts(rows) ==
    LET pos == 1..Len(rows)
    IN  SortOutcomes(rows, {q \in pos \X pos : rows[q[1]]["rSize"] > rows[q[2]]["rSize"]},
                     FALSE)

\* Mutant: the table is sorted but drop_duplicates is not applied.
DedupStage_Mut(df, criteria) ==
    IF DedupApplies(df, criteria)
    THEN {DataFrame(df.columns, sorted) : sorted \in RSizeSorts(df.rows)}
    ELSE {df}

DedupStage(df, criteria) ==
    IF DedupApplies(df, criteria)
    THEN {DataFrame(df.columns, DropDuplicates(sorted, GroupCols \cap df.columns)) :
             sorted \in RSizeSorts(df.rows)}
    ELSE {df}

\* What one call of filterScenarioResults leaves behind: whether it raised,
\* where it returned, the table it returned, the caller's table after the
\* call, whether the returned table is the caller's object, the log, and the
\* tables between the sections (the empty NoDF for a section never reached).
NoDF == DataFrame({}, <<>>)

Outcome(raised, exit, f, result, regionIn, regionOut, scenarioOut, dedupIn) ==
    [raised |-> raised, exit |-> exit, result |-> result, shared |-> f.shared,
     alias |-> f.alias /\ ~ raised, log |-> f.log,
     regionIn |-> regionIn, regionOut |-> regionOut,
     scenarioOut |-> scenarioOut, dedupIn |-> dedupIn]

filterScenarioResults(gdf, criteria, legend) ==
    LET f0 == NormalizeGuard(Frame(gdf, gdf, TRUE, {}))
        f1 == RegionStage(f0, criteria)
    IN  IF IsEmpty(f1.df)
        THEN {Outcome(FALSE, "region-empty",
                      Warn(f1, "No rows left after region filter."),
                      f1.df, f0.df, f1.df, NoDF, NoDF)}
        ELSE
        LET f2 == ScenarioStage(f1, criteria)
        IN  IF IsEmpty(f2.df)
            THEN {Outcome(FALSE, "scenario-empty",
                          Warn(f2, "No rows left after scenario filters (subC/sector/flow/elev)."),
                          f2.df, f0.df, f1.df, f2.df, NoDF)}
            ELSE UNION {
                IF e.status = "raise"
                THEN {Outcome(TRUE, e.exit, e.f, NoDF, f0.df, f1.df, f2.df, NoDF)}
                ELSE IF e.status = "return"
                THEN {Outcome(FALSE, e.exit, e.f, e.f.df, f0.df, f1.df, f2.df, NoDF)}
                ELSE {Outcome(FALSE, "end",
                              IF DedupApplies(e.f.df, criteria) THEN Rebind(e.f, out) ELSE e.f,
                              out, f0.df, f1.df, f2.df, e.f.df) :
                         out \in DedupStage(e.f.df, criteria)}
                : e \in LegendStage(f2, criteria, legend)}

\* Mutant: legAll is the legend object itself, not a copy of it.
LegendCopy_Mut(legend) == Frame(legend, legend, TRUE, {})

\* legAll = legend.copy(): a new object, the caller's legend kept as shared
LegendCopy(legend) == Rebind(Frame(legend, legend, TRUE, {}), legend)

\* the call got as far as the normalization of the legend: a classification
\* pair whose size class parses, on a table with rows left after Section 2
ReachedLegend(criteria, o) ==
    /\ Truthy(criteria.AvaDistributionPotential)
    /\ criteria.AvaSizePotential.t # "none"
    /\ SizeParses(criteria.AvaSizePotential)
    /\ o.exit \notin {"region-empty", "scenario-empty"}

\* the legend object of the caller after the call: the label columns of
\* legAll are assigned in place
LegendAfter(legend, criteria, o) ==
    IF ReachedLegend(criteria, o)
    THEN InPlace(LegendCopy(legend), LegAll(legend)).shared
    ELSE legend

\* --------------------------------------- avaScenFilter.runScenarioFilters
VARIABLES
    gdf,           \* the table passed by the caller, shared by all scenarios
    criteriaList,  \* the scenario criteria, in order
    legend,        \* the classification matrix
    results,       \* the (criteria, survivors) pairs collected so far
    i,             \* the index of the next scenario of the loop
    pc,            \* "loop" or "done"
    log,           \* the runner's log: scenarios without results or that failed
    call,          \* the most recent call of filterScenarioResults
    gdf0,          \* the table as it was when runScenarioFilters was called
    rsizeCall,     \* a call of the matrix builder's helper rsize_from
    normCall,      \* the calls of normalizeAvaCols made on the table
    mapper         \* runAvaScenMapper: its configuration, its log, the outputs written

vars == <<gdf, criteriaList, legend, results, i, pc, log, call, gdf0, rsizeCall, normCall,
          mapper>>

NoCall ==
    [active |-> FALSE, input |-> NoDF, criteria |-> <<>>,
     out |-> Outcome(FALSE, "", Frame(NoDF, NoDF, FALSE, {}), NoDF, NoDF, NoDF, NoDF, NoDF)]

\* normalizeAvaCols has not been called
NoNormCall ==
    [count |-> 0, alias |-> FALSE, arg |-> NoDF, argAfter |-> NoDF, out |-> NoDF,
     prev |-> NoDF]

\* runAvaScenMapper is not running
NoMapper == [active |-> FALSE, cfg |-> <<>>, log |-> {}, written |-> <<>>]

\* no call of rsize_from is under way
NoRsizeCall == [ppm |-> 0, pem |-> 0, pc |-> "idle", raised |-> FALSE, value |-> 0]

\* Mutant: the emptiness test before results.append is dropped.
Survives_Mut(o) == ~ o.raised

\* results.append((crit, survivors)), unless the scenario raised or is empty
Survives(o) == ~ o.raised /\ ~ IsEmpty(o.result)

Collected(res, crit, o) ==
    IF Survives(o)
    THEN Append(res, [crit |-> crit, survivors |-> o.result, alias |-> o.alias])
    ELSE res

\* a table collected earlier that is the caller's object changes with it
Aliased(res, shared) ==
    [k \in 1..Len(res) |->
        IF res[k].alias THEN [res[k] EXCEPT !.survivors = shared] ELSE res[k]]

RunScenario ==
    /\ pc = "loop"
    /\ i <= Len(criteriaList)
    /\ \E o \in filterScenarioResults(gdf, criteriaList[i], legend) :
          /\ gdf' = o.shared
          /\ legend' = LegendAfter(legend, criteriaList[i], o)
          /\ results' = Collected(Aliased(results, o.shared), criteriaList[i], o)
          /\ log' = IF o.raised
                    THEN Append(log, [idx |-> i, name |-> criteriaList[i].name,
                                      event |-> "failed during filtering"])
                    ELSE IF IsEmpty(o.result)
                    THEN Append(log, [idx |-> i, name |-> criteriaList[i].name,
                                      event |-> "produced no results"])
                    ELSE log
          /\ call' = [active |-> TRUE, input |-> gdf,
                      criteria |-> criteriaList[i], out |-> o]
    /\ i' = i + 1
    /\ UNCHANGED <<criteriaList, pc, gdf0, rsizeCall, normCall, mapper>>

Return ==
    /\ pc = "loop"
    /\ i > Len(criteriaList)
    /\ pc' = "done"
    /\ UNCHANGED <<gdf, criteriaList, legend, results, i, log, call, gdf0, rsizeCall, normCall,
                   mapper>>

Next == RunScenario \/ Return

\* ----------------------------------------------------------------- inputs
\* The texts the inputs carry, spelled as the files spell them: cells of the
\* table (readGdf) and values of the ini file (parseFilterConfig), each a
\* sequence of characters.
InputText ==
    [sN |-> <<"N">>,
     sNLower |-> <<"n">>,
     sNPadded |-> <<" ", "n">>,
     sS |-> <<"S">>,
     sDry |-> <<"d", "r", "y">>,
     sWet |-> <<"w", "e", "t">>,
     sDryRaw |-> <<"D", "r", "y", " ">>,
     sA |-> <<"A">>,
     sB |-> <<"B">>,
     sX |-> <<"x">>,
     sAndRaw |-> <<" ", "A", "N", "D">>,
     sABList |-> <<"A", ",", " ", "B">>,
     sHighRaw |-> <<"H", "i", "g", "h", " ">>,
     sResRelRaw |-> <<"R", "E", "S", " ", "/", " ", "R", "E", "L">>,
     sModeratRaw |-> <<"M", "o", "d", "e", "r", "a", "t", " ">>,
     sThree |-> <<"3">>,
     sRelRaw |-> <<"R", "e", "l", " ">>,
     sOne |-> <<"1">>,
     sDryWetList |-> <<"d", "r", "y", ",", " ", "w", "e", "t">>,
     sNSList |-> <<"N", ",", "S">>,
     sHighLowList |-> <<"h", "i", "g", "h", ",", "l", "o", "w">>,
     sDryPadded |-> <<"D", "r", "y", " ", " ">>]

AllColumns ==
    {"praID", "LKGebietID", "LWDGebietID", "subC", "sector", "flow",
     "elevMin", "elevMax", "PPM", "PEM", "rSize", "modType", "geometry"}

\* A row of a normalized table; geometry tells the rows of a table apart.
BaseRow(g) ==
    [praID |-> 1, LKGebietID |-> InputText.sA, LWDGebietID |-> InputText.sA, subC |-> 1,
     sector |-> InputText.sN, flow |-> InputText.sDry, elevMin |-> 2, elevMax |-> 2,
     PPM |-> 2, PEM |-> 2, rSize |-> 5, modType |-> sRel, geometry |-> g]

NoCriteria ==
    [name |-> "all", LKRegionID |-> PyNone, LwdRegionID |-> PyNone,
     regionMode |-> PyNone, subCs |-> PyNone, sectors |-> PyNone,
     flows |-> PyNone, elevMin |-> PyNone, elevMax |-> PyNone,
     AvaDistributionPotential |-> PyNone, AvaSizePotential |-> PyNone,
     applySingleRsizeRule |-> TRUE]

MaxRows == 2
MaxScen == 2

\* the tables of 1..MaxRows rows, row k drawn from kinds[k], restricted to cols
Tables(kinds, cols) ==
    UNION {
        {DataFrame(cols, [k \in 1..n |-> [c \in cols |-> t[k][c]]]) :
            t \in {u \in [1..n -> UNION {kinds[k] : k \in 1..n}] :
                      \A k \in 1..n : u[k] \in kinds[k]}}
        : n \in 1..MaxRows}

InitWith(tables, criteriaLists, legends) ==
    /\ gdf \in tables
    /\ gdf0 = gdf
    /\ criteriaList \in criteriaLists
    /\ legend \in legends
    /\ results = <<>>
    /\ i = 1
    /\ pc = "loop"
    /\ log = <<>>
    /\ call = NoCall
    /\ rsizeCall = NoRsizeCall
    /\ normCall = NoNormCall
    /\ mapper = NoMapper

\* The runner: tables whose sector cells differ in case, and scenario lists
\* of up to MaxScen scenarios, among them one that raises and empty ones.
\* Row g has release code g + 1 and event code 2, and the size index of that pair.
RunnerKinds(g) ==
    {[BaseRow(g) EXCEPT !.sector = s, !.PPM = g + 1,
                        !.rSize = rsize_from(g + 1, 2)] : s \in {InputText.sN, InputText.sNLower, InputText.sS}}

RunnerCriteria ==
    { NoCriteria,
      [NoCriteria EXCEPT !.name = "keepAll", !.applySingleRsizeRule = FALSE],
      [NoCriteria EXCEPT !.name = "north", !.sectors = PyList(<<InputText.sNPadded>>)],
      [NoCriteria EXCEPT !.name = "dry", !.flows = PyList(<<InputText.sDryRaw>>)],
      [NoCriteria EXCEPT !.name = "high2",
                         !.AvaDistributionPotential = PyList(<<sHigh>>),
                         !.AvaSizePotential = PyInt(2)],
      [NoCriteria EXCEPT !.name = "badSize", !.sectors = PyList(<<InputText.sN>>),
                         !.AvaDistributionPotential = PyList(<<sHigh>>),
                         !.AvaSizePotential = PyStr(InputText.sX)] }

SeqsUpTo(S, n) == UNION {[1..k -> S] : k \in 0..n}

\* A matrix passed by the caller: "high" with sizes 1 and 2, "moderate" with 2.
SmallLegend ==
    DataFrame(LegendColumns,
        << LegendRow(sHigh, 1, 2, 2, rsize_from(2, 2), sRel),
           LegendRow(sHigh, 2, 2, 2, rsize_from(2, 2), sRel),
           LegendRow(sHigh, 2, 3, 2, rsize_from(3, 2), sResRel),
           LegendRow(sModerate, 2, 3, 2, rsize_from(3, 2), sRes) >>)

Init == InitWith(Tables([g \in 1..MaxRows |-> RunnerKinds(g)], AllColumns), SeqsUpTo(RunnerCriteria, MaxScen),
                 {SmallLegend})

Spec == Init /\ [][Next]_vars

\* One scenario on tables whose rows differ in release area, geometry role
\* and size index, so that rows share group keys and size indices.
DedupKinds(g) ==
    {[BaseRow(g) EXCEPT !.praID = p, !.modType = m, !.PPM = ppm,
                        !.rSize = rsize_from(ppm, 2)] :
        p \in {1, 2}, m \in {sRes, sRel}, ppm \in {2, 3}}

DedupCriteria ==
    { NoCriteria,
      [NoCriteria EXCEPT !.name = "keepAll", !.applySingleRsizeRule = FALSE] }

DedupColumnSets ==
    {AllColumns, AllColumns \ {"rSize"}, AllColumns \ {"modType"}, AllColumns \ {"praID"}}

InitDedup ==
    InitWith(UNION {Tables([g \in 1..MaxRows |-> DedupKinds(g)], cols) : cols \in DedupColumnSets},
             {<<c>> : c \in DedupCriteria}, {SmallLegend})

SpecDedup == InitDedup /\ [][Next]_vars

\* One scenario with region criteria on tables whose rows differ in the two
\* region ids.
RegionKinds(g) ==
    {[BaseRow(g) EXCEPT !.LKGebietID = lk, !.LWDGebietID = lwd, !.PPM = g + 1,
                        !.rSize = rsize_from(g + 1, 2)] :
        lk \in {InputText.sA, InputText.sB}, lwd \in {InputText.sA, InputText.sB}}


RegionCriteria ==
    {[NoCriteria EXCEPT !.name = "region", !.LKRegionID = lk, !.LwdRegionID = lwd,
                        !.regionMode = mode] :
        lk \in {PyNone, PyList(<<InputText.sA>>), PyStr(InputText.sABList)},
        lwd \in {PyNone, PyList(<<InputText.sA>>), PyList(<<InputText.sB>>)},
        mode \in {PyNone, PyStr(sAnd), PyStr(sOr), PyStr(InputText.sAndRaw)}}

RegionColumnSets ==
    {AllColumns, AllColumns \ {"LKGebietID"}, AllColumns \ {"LWDGebietID"}}

InitRegion ==
    InitWith(UNION {Tables([g \in 1..MaxRows |-> RegionKinds(g)], cols) : cols \in RegionColumnSets},
             {<<c>> : c \in RegionCriteria}, {SmallLegend})

SpecRegion == InitRegion /\ [][Next]_vars

\* One scenario with attribute criteria on tables whose rows differ in
\* subcatchment, sector, flow and elevation bounds.
AttrKinds(g) ==
    LET row == [BaseRow(g) EXCEPT !.PPM = g + 1, !.rSize = rsize_from(g + 1, 2)]
    IN  {[row EXCEPT !.subC = c, !.sector = s] : c \in {1, 2}, s \in {InputText.sNLower, InputText.sS}}
        \cup {[row EXCEPT !.flow = InputText.sWet]}
        \cup {[row EXCEPT !.elevMin = e] : e \in {1, 2, 3}}
        \cup {[row EXCEPT !.elevMax = e] : e \in {1, 2, 3}}

AttrCriteria ==
    {[NoCriteria EXCEPT !.name = "attr", !.subCs = c, !.sectors = s, !.flows = f,
                        !.elevMin = lo, !.elevMax = hi] :
        c \in {PyNone, PyList(<<1>>)},
        s \in {PyNone, PyList(<<InputText.sNPadded>>)},
        f \in {PyNone, PyList(<<InputText.sDryRaw>>)},
        lo \in {PyNone, PyInt(2)},
        hi \in {PyNone, PyInt(2)}}

InitAttr ==
    InitWith(Tables([g \in 1..MaxRows |-> AttrKinds(g)], AllColumns), {<<c>> : c \in AttrCriteria}, {SmallLegend})

SpecAttr == InitAttr /\ [][Next]_vars

\* A matrix passed by the caller with labels that are not normalized:
\* "High" with sizes 2 and 4, "moderate" with 3.
RawLegend ==
    DataFrame(LegendColumns,
        << LegendRow(InputText.sHighRaw, 2, 2, 2, rsize_from(2, 2), InputText.sResRelRaw),
           LegendRow(InputText.sHighRaw, 4, 3, 2, rsize_from(3, 2), InputText.sResRelRaw),
           LegendRow(sModerate, 3, 3, 2, rsize_from(3, 2), sRel) >>)

\* One scenario with a classification pair, with or without a region and a
\* subcatchment criterion, on tables that may lack a column, against two
\* matrices passed by the caller.
LegendKinds(g) ==
    {[BaseRow(g) EXCEPT !.modType = m, !.PPM = ppm, !.rSize = rsize_from(ppm, 2)] :
        m \in {sRes, sRel}, ppm \in {2, 3}}


LegendCriteria ==
    {[NoCriteria EXCEPT !.name = "legend", !.LKRegionID = lk, !.subCs = c,
                        !.AvaDistributionPotential = pots,
                        !.AvaSizePotential = size] :
        lk \in {PyNone, PyList(<<InputText.sA>>)},
        c \in {PyNone, PyList(<<1>>)},
        pots \in {PyList(<<sHigh>>), PyList(<<InputText.sModeratRaw>>)},
        size \in {PyInt(1), PyInt(2), PyInt(4), PyStr(InputText.sThree)}}

LegendColumnSets ==
    {AllColumns, AllColumns \ {"subC"}, AllColumns \ {"modType"},
     AllColumns \ {"PPM"}, AllColumns \ {"rSize"}, AllColumns \ {"LKGebietID"}}

InitLegend ==
    InitWith(UNION {Tables([g \in 1..MaxRows |-> LegendKinds(g)], cols) : cols \in LegendColumnSets},
             {<<c>> : c \in LegendCriteria}, {SmallLegend, RawLegend})

SpecLegend == InitLegend /\ [][Next]_vars

\* One scenario with a classification pair whose size class is not 1, on
\* tables whose rows differ in the join keys: geometry role (one of them not
\* normalized, one the double tag), release code and size index.
JoinKinds(g) ==
    {[BaseRow(g) EXCEPT !.modType = m, !.PPM = k[1], !.rSize = k[2]] :
        m \in {sRes, sRel, sResRel},
        k \in {<<2, rsize_from(2, 2)>>, <<3, rsize_from(3, 2)>>, <<3, rsize_from(2, 2)>>}}
    \cup {[BaseRow(g) EXCEPT !.modType = InputText.sRelRaw]}

JoinCriteria ==
    {[NoCriteria EXCEPT !.name = "join",
                        !.AvaDistributionPotential = pots,
                        !.AvaSizePotential = size] :
        pots \in {PyList(<<InputText.sModeratRaw>>), PyList(<<sModerate>>)},
        size \in {PyInt(2), PyInt(3)}}
    \cup {[NoCriteria EXCEPT !.name = "join",
                             !.AvaDistributionPotential = PyList(<<sHigh>>),
                             !.AvaSizePotential = size] :
              size \in {PyInt(2), PyInt(4)}}
    \cup {[NoCriteria EXCEPT !.name = "join",
                             !.AvaDistributionPotential = PyList(<<sModerate, InputText.sHighRaw, sHigh>>),
                             !.AvaSizePotential = PyInt(2)],
           [NoCriteria EXCEPT !.name = "join",
                             !.AvaDistributionPotential = PyList(<<sHigh>>),
                             !.AvaSizePotential = PyInt(1)]}

InitJoin ==
    InitWith(Tables([g \in 1..MaxRows |-> JoinKinds(g)], AllColumns),
             {<<c>> : c \in JoinCriteria}, {SmallLegend, RawLegend})

SpecJoin == InitJoin /\ [][Next]_vars

\* One scenario with size class 1 on tables whose rows differ in release
\* area, geometry role and the codes that order the rows of a release area.
RelOnlyKinds(g) ==
    {[BaseRow(g) EXCEPT !.praID = p, !.modType = m, !.PPM = k[1], !.PEM = k[2],
                        !.rSize = rsize_from(k[1], k[2])] :
        p \in {1, 2}, m \in {sRes, sRel},
        k \in {<<2, 2>>, <<3, 2>>, <<3, 3>>}}
    \cup {[BaseRow(g) EXCEPT !.modType = InputText.sRelRaw]}

RelOnlyCriteria ==
    ({[NoCriteria EXCEPT !.name = "relOnly",
                        !.AvaDistributionPotential = PyList(<<sHigh>>),
                        !.AvaSizePotential = size,
                        !.applySingleRsizeRule = single] :
        size \in {PyInt(1), PyStr(InputText.sOne)}, single \in {TRUE, FALSE}}
    \ {[NoCriteria EXCEPT !.name = "relOnly",
                          !.AvaDistributionPotential = PyList(<<sHigh>>),
                          !.AvaSizePotential = PyStr(InputText.sOne),
                          !.applySingleRsizeRule = FALSE]})
    \cup {[NoCriteria EXCEPT !.name = "general",
                             !.AvaDistributionPotential = PyList(<<sHigh>>),
                             !.AvaSizePotential = PyInt(2),
                             !.applySingleRsizeRule = FALSE]}

RelOnlyColumnSets ==
    {AllColumns, AllColumns \ {"praID"}, AllColumns \ {"PEM"}, AllColumns \ {"rSize"}}

InitRelOnly ==
    InitWith(UNION {Tables([g \in 1..MaxRows |-> RelOnlyKinds(g)], cols) :
                       cols \in RelOnlyColumnSets},
             {<<c>> : c \in RelOnlyCriteria}, {SmallLegend})

SpecRelOnly == InitRelOnly /\ [][Next]_vars

\* The runner with the matrix of the builder, or with a matrix passed by a
\* caller, shared by up to MaxScen scenarios with a classification pair.
MatrixKinds(g) ==
    {[BaseRow(g) EXCEPT !.modType = sRes, !.PPM = 5, !.rSize = rsize_from(5, 2)],
     [BaseRow(g) EXCEPT !.modType = sRes, !.PPM = 5, !.rSize = 5],
     [BaseRow(g) EXCEPT !.PEM = 5, !.rSize = 2]}

MatrixCriteria ==
    {[NoCriteria EXCEPT !.name = "high2",
                        !.AvaDistributionPotential = PyList(<<sHigh>>),
                        !.AvaSizePotential = PyInt(2)],
     [NoCriteria EXCEPT !.name = "veryHigh5",
                        !.AvaDistributionPotential = PyList(<<sVeryHigh>>),
                        !.AvaSizePotential = PyInt(5)],
     [NoCriteria EXCEPT !.name = "high1",
                        !.AvaDistributionPotential = PyList(<<sHigh>>),
                        !.AvaSizePotential = PyInt(1)]}

InitMatrix ==
    InitWith(Tables([g \in 1..MaxRows |-> MatrixKinds(g)], AllColumns),
             SeqsUpTo(MatrixCriteria, MaxScen), {avaPotMatrix, RawLegend})

SpecMatrix == InitMatrix /\ [][Next]_vars

\* One scenario with one list-valued field passed as a comma-separated
\* string, on tables whose rows differ in region, sector and flow.
AsListKinds(g) ==
    {[BaseRow(g) EXCEPT !.LKGebietID = lk, !.LWDGebietID = lk, !.sector = sec,
                        !.flow = fl, !.PPM = g + 1, !.rSize = rsize_from(g + 1, 2)] :
        lk \in {InputText.sA, InputText.sB}, sec \in {InputText.sN, InputText.sS}, fl \in {InputText.sDry, InputText.sWet}}


AsListCriteria ==
    {[NoCriteria EXCEPT !.name = "lk", !.LKRegionID = PyStr(InputText.sABList)],
     [NoCriteria EXCEPT !.name = "lwd", !.LwdRegionID = PyStr(InputText.sABList)],
     [NoCriteria EXCEPT !.name = "sectors", !.sectors = PyStr(InputText.sNSList)],
     [NoCriteria EXCEPT !.name = "flows", !.flows = PyStr(InputText.sDryWetList)],
     [NoCriteria EXCEPT !.name = "pots", !.AvaDistributionPotential = PyStr(InputText.sHighLowList),
                        !.AvaSizePotential = PyInt(2)]}

InitAsList ==
    InitWith(Tables([g \in 1..MaxRows |-> AsListKinds(g)], AllColumns),
             {<<c>> : c \in AsListCriteria}, {SmallLegend})

SpecAsList == InitAsList /\ [][Next]_vars

\* ------------------------------------------- avaPotMatrix.rsize_from
\* The helper applied to a pair of mobility codes: it returns the value of
\* the conditional chain; no branch of it raises.
CallRsizeFrom ==
    /\ rsizeCall.pc = "called"
    /\ rsizeCall' = [rsizeCall EXCEPT !.pc = "returned", !.raised = FALSE,
                                      !.value = rsize_from(rsizeCall.ppm, rsizeCall.pem)]
    /\ UNCHANGED <<gdf, criteriaList, legend, results, i, pc, log, call, gdf0, normCall, mapper>>

NextRsize == CallRsizeFrom

MaxCode == 7

\* the codes a caller may pass: 0..MaxCode
InitRsize ==
    /\ gdf = NoDF
    /\ gdf0 = NoDF
    /\ criteriaList = <<>>
    /\ legend = NoDF
    /\ results = <<>>
    /\ i = 1
    /\ pc = "done"
    /\ log = <<>>
    /\ call = NoCall
    /\ normCall = NoNormCall
    /\ mapper = NoMapper
    /\ rsizeCall \in {[ppm |-> a, pem |-> b, pc |-> "called", raised |-> FALSE, value |-> 0] :
                         a \in 0..MaxCode, b \in 0..MaxCode}

SpecRsize == InitRsize /\ [][NextRsize]_vars

\* ------------------------------------------- mapperUtils.normalizeAvaCols
MaxNormCalls == 2

\* gdf = normalizeAvaCols(gdf): the first call is made on the table read from
\* the file, the next one on the table the call before returned.
CallNormalize ==
    /\ pc = "normalize"
    /\ normCall.count < MaxNormCalls
    /\ LET arg == IF normCall.count = 0 THEN gdf ELSE normCall.out
           f == normalizeAvaCols(Frame(arg, arg, TRUE, {}))
       IN  /\ normCall' = [count |-> normCall.count + 1, alias |-> f.alias,
                           arg |-> arg, argAfter |-> f.shared, out |-> f.df,
                           prev |-> normCall.out]
           /\ gdf' = IF normCall.count = 0 \/ normCall.alias THEN f.shared ELSE gdf
    /\ UNCHANGED <<criteriaList, legend, results, i, pc, log, call, gdf0, rsizeCall, mapper>>

NextNormalize == CallNormalize

\* the text of a one-digit number, as a file holds it
DigitText(n) == <<Alphabet[n + 4]>>

\* The tables as read from a file: the mobility-code columns under one
\* spelling or absent, flow and modType as written, the cells of some numeric
\* columns as text.
FileRow(g, codes, text, fl, m) ==
    LET base == [BaseRow(g) EXCEPT !.flow = fl, !.modType = m, !.PPM = g + 1,
                                   !.rSize = rsize_from(g + 1, 2)]
        cols == (AllColumns \ {"PPM", "PEM"}) \cup codes
    IN  [c \in cols |->
            IF ColUpper(c) \in text THEN DigitText(base[ColUpper(c)])
            ELSE base[ColUpper(c)]]

\* the table of the rows FileRow(k, codes, text, t[k][1], t[k][2])
FileTable(codes, text, t) ==
    LET cols == (AllColumns \ {"PPM", "PEM"}) \cup codes
    IN  ReadTable(cols,
                  [k \in 1..Len(t) |-> FileRow(k, codes, text, t[k][1], t[k][2])],
                  {c \in cols : ColUpper(c) \in text})

InitNormalize ==
    /\ \E n \in 1..MaxRows, codes \in {{"PPM", "PEM"}, {"ppm", "pem"}, {"Ppm", "Pem"}, {}},
          text \in {{}, {"rSize"}, {"PPM", "subC"}} :
          \E t \in [1..n -> {InputText.sDry, InputText.sDryPadded} \X {sRel, InputText.sRelRaw}] :
              gdf = FileTable(codes, text, t)
    /\ gdf0 = gdf
    /\ criteriaList = <<>>
    /\ legend = NoDF
    /\ results = <<>>
    /\ i = 1
    /\ pc = "normalize"
    /\ log = <<>>
    /\ call = NoCall
    /\ rsizeCall = NoRsizeCall
    /\ normCall = NoNormCall
    /\ mapper = NoMapper

SpecNormalize == InitNormalize /\ [][NextNormalize]_vars

\* One scenario with one attribute criterion or none, with or without a
\* classification pair, on tables that lack columns a criterion or the
\* classification reads.  A row passes every attribute criterion or none.
InitMissing ==
    InitWith(
        UNION {Tables([g \in 1..MaxRows |->
                          {BaseRow(g),
                           [BaseRow(g) EXCEPT !.subC = 2, !.sector = InputText.sS,
                                              !.flow = InputText.sWet,
                                              !.elevMin = 1, !.elevMax = 3]}],
                      AllColumns \ drop) :
                  drop \in {{}, {"sector", "PPM"}, {"flow", "modType"}}
                           \cup {{c} : c \in {"subC", "sector", "flow", "elevMin", "elevMax",
                                              "PPM", "PEM", "rSize", "modType"}}},
        {<<[c EXCEPT !.AvaDistributionPotential = p[1], !.AvaSizePotential = p[2]]>> :
            c \in {[NoCriteria EXCEPT !.name = "missing"],
                   [NoCriteria EXCEPT !.name = "missing", !.subCs = PyList(<<1>>)],
                   [NoCriteria EXCEPT !.name = "missing", !.sectors = PyList(<<InputText.sN>>)],
                   [NoCriteria EXCEPT !.name = "missing", !.flows = PyList(<<InputText.sDry>>)],
                   [NoCriteria EXCEPT !.name = "missing", !.elevMin = PyInt(2)],
                   [NoCriteria EXCEPT !.name = "missing", !.elevMax = PyInt(2)]},
            p \in {<<PyNone, PyNone>>, <<PyList(<<sHigh>>), PyInt(1)>>,
                   <<PyList(<<sHigh>>), PyInt(2)>>}},
        {SmallLegend})

SpecMissing == InitMissing /\ [][Next]_vars

\* ------------------------------------------ mapperUtils.parseFilterConfig
\* An option of an ini section is PyNone when the section does not have it,
\* PyStr(text) otherwise.
\* _getInt: None for an absent or blank option; int(raw) when it parses;
\* otherwise a warning is logged and None is returned
GetInt(raw) ==
    IF raw.t = "none" \/ Strip(raw.v) = <<>>
    THEN [val |-> PyNone, warned |-> FALSE]
    ELSE IF CanInt(Strip(raw.v))
    THEN [val |-> PyInt(IntOf(Strip(raw.v))), warned |-> FALSE]
    ELSE [val |-> PyNone, warned |-> TRUE]

\* _getList: the non-empty trimmed pieces between commas, or None
GetList(raw) ==
    IF raw.t = "none" THEN PyNone
    ELSE LET parts == SplitComma(raw.v)
             stripped == [k \in 1..Len(parts) |-> Strip(parts[k])]
             vals == SelectSeq(stripped, LAMBDA v : v # <<>>)
         IN  IF vals = <<>> THEN PyNone ELSE PyList(vals)

\* the dictionary crit built from one section [FILTER.<shortName>]
ParseSection(s) ==
    LET subC == GetInt(s.subC).val
    IN  [name |-> IF s.name = {} THEN s.shortName ELSE CHOOSE n \in s.name : TRUE,
         LwdRegionID |-> GetList(s.LwdRegionID),
         LKRegionID |-> GetList(s.LKRegionID),
         regionMode |-> IF s.regionMode.t = "none" THEN PyStr(sOr) ELSE s.regionMode,
         subCs |-> IF subC.t # "none" THEN PyList(<<subC.v>>) ELSE PyNone,
         sectors |-> GetList(s.sector),
         flows |-> GetList(s.flow),
         elevMin |-> GetInt(s.elevMin).val,
         elevMax |-> GetInt(s.elevMax).val,
         AvaDistributionPotential |-> GetList(s.AvaDistributionPotential),
         AvaSizePotential |-> GetInt(s.AvaSizePotential).val,
         applySingleRsizeRule |-> s.applySingleRsizeRule]

IntOptions == {"subC", "elevMin", "elevMax", "AvaSizePotential"}

\* parseFilterConfig: one scenario per listed filter whose section exists,
\* in the order of the list; the log holds what was warned about
parseFilterConfig(cfg) ==
    LET present == SelectSeq(cfg.sections, LAMBDA s : s.present)
    IN  [criteriaList |-> [k \in 1..Len(present) |-> ParseSection(present[k])],
         log |->
            {[event |-> "Cannot parse integer", section |-> present[k].shortName, key |-> o] :
                <<k, o>> \in {q \in (1..Len(present)) \X IntOptions :
                                 GetInt(present[q[1]][q[2]]).warned}}
            \cup {[event |-> "Missing section; skipping",
                   section |-> cfg.sections[k].shortName, key |-> ""] :
                     k \in {j \in 1..Len(cfg.sections) : ~ cfg.sections[j].present}}
            \cup (IF cfg.sections = <<>>
                  THEN {[event |-> "[FILTER].filters is empty; no scenarios defined.",
                         section |-> "", key |-> ""]}
                  ELSE {})]

\* --------------------------------------------- mapperUtils.checkInputData
\* Mutant: only the emptiness of the table is checked.
checkInputData_Mut(df) ==
    [ok |-> ~ IsEmpty(df),
     log |-> IF IsEmpty(df)
             THEN {[event |-> "Input dataset is empty", section |-> "", key |-> ""]}
             ELSE {}]

\* checkInputData: False, with an error logged, when a required column is
\* missing or the table has no rows
checkInputData(df) ==
    LET requiredCols == {"praID", "flow", "sector", "subC", "elevMin", "elevMax",
                         "rSize", "LKGebietID", "LWDGebietID"}
        missing == requiredCols \ df.columns
    IN  [ok |-> missing = {} /\ ~ IsEmpty(df),
         log |-> IF missing # {}
                 THEN {[event |-> "Missing required columns", section |-> "", key |-> c] :
                          c \in missing}
                 ELSE IF IsEmpty(df)
                 THEN {[event |-> "Input dataset is empty", section |-> "", key |-> ""]}
                 ELSE {}]

\* ----------------------------------------- runAvaScenMapper.runAvaScenMapper
\* pc of runAvaScenMapper: "load", "prepare", then the loop of
\* runScenarioFilters ("loop", "done"), and "finished" after the outputs are
\* written; "aborted" after a failed validation, "exit" after an early return.
\* Load and validate: readGdf, normalizeAvaCols, checkInputData,
\* handleAvaDirCheckMode.
LoadInput ==
    /\ pc = "load"
    /\ LET f == normalizeAvaCols(Frame(gdf, gdf, TRUE, {}))
           checked == checkInputData(f.df)
       IN  /\ gdf' = f.df
           /\ gdf0' = f.df
           /\ IF ~ checked.ok
              THEN /\ pc' = "aborted"
                   /\ mapper' = [mapper EXCEPT !.log = @ \cup checked.log \cup
                                    {[event |-> "Step 17 aborted: input dataset incomplete or invalid.",
                                      section |-> "", key |-> ""]}]
              ELSE IF mapper.cfg.checkAvaDirResult
              THEN /\ pc' = "exit"
                   /\ mapper' = [mapper EXCEPT !.log = @ \cup
                                    {[event |-> "Mapper workflow terminated by user request.",
                                      section |-> "", key |-> ""]}]
              ELSE /\ pc' = "prepare"
                   /\ UNCHANGED mapper
    /\ UNCHANGED <<criteriaList, legend, results, i, log, call, rsizeCall, normCall>>

\* Load the matrix, parse the scenario definitions and leave out the
\* scenarios whose output exists for an enabled format.  The scenario names
\* of the configurations are alphanumeric, so that the file name built from
\* a name stands for the name.
PrepareScenarios ==
    /\ pc = "prepare"
    /\ LET parsed == IF mapper.cfg.mapperUseCaaml
                     THEN [criteriaList |-> <<>>, log |-> {}]
                     ELSE parseFilterConfig(mapper.cfg)
           toRun == SelectSeq(parsed.criteriaList,
                              LAMBDA c : ~ (mapper.cfg.writeParquet /\ c.name \in mapper.cfg.existing))
       IN  /\ legend' = avaPotMatrix
           /\ criteriaList' = toRun
           /\ pc' = IF toRun = <<>> THEN "exit" ELSE "loop"
           /\ mapper' = [mapper EXCEPT !.log = @ \cup parsed.log \cup
                            (IF parsed.criteriaList = <<>>
                             THEN {[event |-> "No scenarios configured", section |-> "", key |-> ""]}
                             ELSE IF toRun = <<>>
                             THEN {[event |-> "All scenario(s) already exist", section |-> "", key |-> ""]}
                             ELSE {})]
    /\ UNCHANGED <<gdf, results, i, log, call, gdf0, rsizeCall, normCall>>

\* After runScenarioFilters has returned: one output per collected scenario
\* when a format is enabled, and the master file when it is asked for.
WriteOutputs ==
    /\ pc = "done"
    /\ mapper.active
    /\ IF results = <<>>
       THEN /\ pc' = "exit"
            /\ mapper' = [mapper EXCEPT !.log = @ \cup
                             {[event |-> "No scenario produced output; nothing to export.",
                               section |-> "", key |-> ""]}]
       ELSE /\ pc' = "finished"
            /\ mapper' = [mapper EXCEPT !.written =
                             IF mapper.cfg.writeParquet
                             THEN [k \in 1..Len(results) |-> results[k].crit.name]
                                     \o (IF mapper.cfg.mapperMakeMaster THEN <<"Master">> ELSE <<>>)
                             ELSE <<>>]
    /\ UNCHANGED <<gdf, criteriaList, legend, results, i, log, call, gdf0, rsizeCall, normCall>>

NextMapper == LoadInput \/ PrepareScenarios \/ RunScenario \/ Return \/ WriteOutputs

\* The configurations.  The sections of an ini file: no criterion, an
\* integer option that does not parse (subC, the elevation bounds, the size
\* class), a subcatchment no row has, a classification pair under a name of
\* its own, and a listed filter without a section.  The default workflow
\* flags come with up to MaxScen listed filters, each other setting of a flag
\* with a single filter.
MapperConfigs ==
    LET NoSection ==
            [shortName |-> "all", present |-> TRUE, name |-> {},
             LwdRegionID |-> PyNone, LKRegionID |-> PyNone, regionMode |-> PyNone,
             subC |-> PyNone, sector |-> PyNone, flow |-> PyNone,
             elevMin |-> PyNone, elevMax |-> PyNone,
             AvaDistributionPotential |-> PyNone, AvaSizePotential |-> PyNone,
             applySingleRsizeRule |-> TRUE]
        sections ==
            { NoSection,
              [NoSection EXCEPT !.shortName = "badSubC", !.subC = PyStr(InputText.sX)],
              [NoSection EXCEPT !.shortName = "badElev", !.elevMin = PyStr(InputText.sX),
                                !.elevMax = PyStr(InputText.sX)],
              [NoSection EXCEPT !.shortName = "badSize",
                                !.AvaDistributionPotential = PyStr(sHigh),
                                !.AvaSizePotential = PyStr(InputText.sX)],
              [NoSection EXCEPT !.shortName = "subC2", !.subC = PyStr(DigitText(2))],
              [NoSection EXCEPT !.shortName = "high2", !.name = {"highTwo"},
                                !.AvaDistributionPotential = PyStr(InputText.sHighRaw),
                                !.AvaSizePotential = PyStr(DigitText(2))],
              [NoSection EXCEPT !.shortName = "missing", !.present = FALSE] }
        NoFlags ==
            [sections |-> <<NoSection>>, checkAvaDirResult |-> FALSE,
             mapperUseCaaml |-> FALSE, writeParquet |-> TRUE,
             mapperMakeMaster |-> FALSE, existing |-> {}]
    IN  {[NoFlags EXCEPT !.sections = l] : l \in SeqsUpTo(sections, MaxScen)}
        \cup {[NoFlags EXCEPT !.checkAvaDirResult = TRUE],
              [NoFlags EXCEPT !.mapperUseCaaml = TRUE],
              [NoFlags EXCEPT !.writeParquet = FALSE],
              [NoFlags EXCEPT !.mapperMakeMaster = TRUE],
              [NoFlags EXCEPT !.existing = {"all"}]}

\* The tables as read: the first row with flow as written in the file or
\* normalized, with all columns or without a required one.
InitMapper ==
    /\ gdf \in UNION {Tables([g \in 1..MaxRows |->
                                 IF g = 1
                                 THEN {BaseRow(g), [BaseRow(g) EXCEPT !.flow = InputText.sDryRaw]}
                                 ELSE {BaseRow(g)}], cols) :
                         cols \in {AllColumns, AllColumns \ {"subC"},
                                   AllColumns \ {"LWDGebietID", "rSize"}}}
    /\ gdf0 = gdf
    /\ criteriaList = <<>>
    /\ legend = NoDF
    /\ results = <<>>
    /\ i = 1
    /\ pc = "load"
    /\ log = <<>>
    /\ call = NoCall
    /\ rsizeCall = NoRsizeCall
    /\ normCall = NoNormCall
    /\ mapper \in {[active |-> TRUE, cfg |-> c, log |-> {}, written |-> <<>>] :
                      c \in MapperConfigs}

SpecMapper == InitMapper /\ [][NextMapper]_vars

\* ------------------------------------------------------------- claims
\* The processed scenarios, none of them logged as skipped or failed.
Skipped == {log[k].idx : k \in 1..Len(log)}
Failed == {log[k].idx : k \in {n \in 1..Len(log) : log[n].event = "failed during filtering"}}

Increasing(f) == \A a, b \in DOMAIN f : a < b => f[a] < f[b]

\* C1: the list returned by runScenarioFilters is a subsequence of the input
\* criteria list in the same order; each pair holds the criteria record that
\* produced its table; no pair has an empty table.
Thm_C1_ResultsAreOrderedNonEmpty ==
    /\ \E f \in [1..Len(results) -> 1..(i - 1)] :
          /\ Increasing(f)
          /\ \A j \in 1..Len(results) :
                /\ results[j].crit = criteriaList[f[j]]
                /\ f[j] \notin Skipped
    /\ Len(results) + Len(log) = i - 1
    /\ \A j \in 1..Len(results) : ~ IsEmpty(results[j].survivors)
    /\ (call.active /\ ~ call.out.raised /\ ~ IsEmpty(call.out.result)) =>
          /\ results # <<>>
          /\ results[Len(results)].crit = call.criteria
          /\ results[Len(results)].survivors = call.out.result
    /\ (call.active /\ (call.out.raised \/ IsEmpty(call.out.result))) =>
          (i - 1) \in Skipped

Wit_C1_KeptAfterSkipped ==
    /\ pc = "done"
    /\ Len(criteriaList) = 2
    /\ Skipped = {1}
    /\ Len(results) = 1
    /\ results[1].crit = criteriaList[2]
    /\ criteriaList[1] # criteriaList[2]

\* C2: each scenario's result is the one filterScenarioResults returns for
\* that scenario alone on the original table, and the shared table keeps its
\* cell values whatever scenarios have run.
Claim_C2_ScenariosIndependent ==
    /\ gdf = gdf0
    /\ \A k \in 1..Len(results) :
          results[k].survivors \in
              {o.result : o \in filterScenarioResults(gdf0, results[k].crit, legend)}

\* what a run over the scenarios crits returns, started on table tbl
RECURSIVE RunAll(_, _, _, _)
RunAll(tbl, crits, leg, res) ==
    IF crits = <<>> THEN {res}
    ELSE UNION {RunAll(o.shared, Tail(crits), leg,
                       Collected(Aliased(res, o.shared), Head(crits), o)) :
                   o \in filterScenarioResults(tbl, Head(crits), leg)}

WithoutFailed ==
    LET kept == {k \in 1..Len(criteriaList) : k \notin Failed}
        RECURSIVE pick(_)
        pick(k) == IF k > Len(criteriaList) THEN <<>>
                   ELSE (IF k \in kept THEN <<criteriaList[k]>> ELSE <<>>) \o pick(k + 1)
    IN  pick(1)

\* C3: a scenario that raises is logged and left out, the run goes on, and
\* the scenarios after it are reported exactly as if it had not been in the list.
Claim_C3_FailureIsolated ==
    pc = "done" =>
        results \in RunAll(gdf0, WithoutFailed, legend, <<>>)

\* The deduplication stage of the most recent call ran: the call reached it,
\* the single-result rule is enabled and the table has an rSize column.
DedupRan ==
    /\ call.active
    /\ call.out.exit = "end"
    /\ call.criteria.applySingleRsizeRule
    /\ "rSize" \in call.out.dedupIn.columns

\* the group-key columns that the table entering the stage has
KeyColumns == GroupCols \cap call.out.dedupIn.columns

SameKey(a, b) == \A c \in KeyColumns : a[c] = b[c]

\* C4: with the single-result rule enabled and rSize present, the
\* deduplication stage returns no more rows than it received, every one of
\* them a row it received, and no two of them agree on all group-key columns
\* that the table has.
Thm_C4_DedupOneRowPerGroupKey ==
    DedupRan =>
        LET inRows == call.out.dedupIn.rows
            outRows == call.out.result.rows
        IN  /\ Len(outRows) <= Len(inRows)
            /\ Range(outRows) \subseteq Range(inRows)
            /\ \A a, b \in 1..Len(outRows) : a # b => ~ SameKey(outRows[a], outRows[b])
            /\ \A r \in Range(inRows) : \E q \in Range(outRows) : SameKey(r, q)

Wit_C4_DuplicateDropped ==
    /\ DedupRan
    /\ Len(call.out.dedupIn.rows) = 2
    /\ Len(call.out.result.rows) = 1
    /\ "modType" \notin call.out.dedupIn.columns

\* C5: with the single-result rule enabled and rSize present, the result
\* holds at most one row per release-area id.
Claim_C5_OneRowPerPraID ==
    (DedupRan /\ "praID" \in call.out.result.columns) =>
        \A a, b \in 1..Len(call.out.result.rows) :
            a # b => call.out.result.rows[a]["praID"] # call.out.result.rows[b]["praID"]

\* C6: within each group of rows sharing the group-key tuple the stage keeps
\* exactly the row with the largest rSize, and among several rows with that
\* rSize the one that came first when the rows entered the stage.
Claim_C6_KeepsFirstLargest ==
    DedupRan =>
        LET inRows == call.out.dedupIn.rows
            outRows == call.out.result.rows
            best(k) ==
                /\ \A j \in 1..Len(inRows) :
                      SameKey(inRows[j], inRows[k]) => inRows[j]["rSize"] <= inRows[k]["rSize"]
                /\ \A j \in 1..(k - 1) :
                      SameKey(inRows[j], inRows[k]) => inRows[j]["rSize"] < inRows[k]["rSize"]
        IN  Range(outRows) = {inRows[k] : k \in {n \in 1..Len(inRows) : best(n)}}

\* The region stage of the most recent call ran with both id sets non-empty
\* and both region columns in the table.
RegionBoth ==
    /\ call.active
    /\ AsList(call.criteria.LKRegionID) # <<>>
    /\ AsList(call.criteria.LwdRegionID) # <<>>
    /\ {"LKGebietID", "LWDGebietID"} \subseteq call.out.regionIn.columns

InLk(row) == row["LKGebietID"] \in Range(AsList(call.criteria.LKRegionID))
InLwd(row) == row["LWDGebietID"] \in Range(AsList(call.criteria.LwdRegionID))

\* C7: with both region id sets non-empty and both region columns present,
\* the rows that survive the region stage are exactly the rows with both
\* memberships if regionMode (trimmed, lower-cased) is "and", and exactly the
\* rows with at least one membership otherwise.
Thm_C7_RegionAndOr ==
    RegionBoth =>
        LET mode == RegionModeOf(call.criteria)
            holds(row) == IF mode = sAnd THEN InLk(row) /\ InLwd(row)
                          ELSE InLk(row) \/ InLwd(row)
        IN  /\ \A q \in Range(call.out.regionOut.rows) : holds(q)
            /\ \A r \in Range(call.out.regionIn.rows) :
                   holds(r) => r \in Range(call.out.regionOut.rows)
            /\ Range(call.out.regionOut.rows) \subseteq Range(call.out.regionIn.rows)

Wit_C7_AndDropsSingleMembership ==
    /\ RegionBoth
    /\ call.criteria.regionMode = PyStr(InputText.sAndRaw)
    /\ \E r \in Range(call.out.regionIn.rows) :
          InLk(r) /\ ~ InLwd(r) /\ r \notin Range(call.out.regionOut.rows)
    /\ \E r \in Range(call.out.regionOut.rows) : InLk(r) /\ InLwd(r)

\* The attribute stage of the most recent call ran on a table that has the
\* five attribute columns.
AttrRan ==
    /\ call.active
    /\ call.out.exit # "region-empty"
    /\ {"subC", "sector", "flow", "elevMin", "elevMax"} \subseteq call.out.regionOut.columns

Satisfies(row, criteria) ==
    /\ Truthy(criteria.subCs) => row["subC"] \in Range(Items(criteria.subCs))
    /\ Truthy(criteria.sectors) =>
          \E s \in Range(Items(criteria.sectors)) :
              Upper(Strip(row["sector"])) = Upper(Strip(s))
    /\ Truthy(criteria.flows) =>
          \E s \in Range(Items(criteria.flows)) :
              Lower(Strip(row["flow"])) = Lower(Strip(s))
    /\ criteria.elevMin.t # "none" => row["elevMin"] >= criteria.elevMin.v
    /\ criteria.elevMax.t # "none" => row["elevMax"] <= criteria.elevMax.v

\* C8: a row survives the attribute stage if and only if it satisfies every
\* criterion that is present: subC, sector and flow membership (sector and
\* flow compared after case and whitespace normalization), elevMin >= the
\* lower bound, elevMax <= the upper bound; an absent criterion removes no row.
Thm_C8_AttributeFiltersConjunctive ==
    AttrRan =>
        /\ \A r \in Range(call.out.regionOut.rows) :
              (\E q \in Range(call.out.scenarioOut.rows) : q["geometry"] = r["geometry"])
                  <=> Satisfies(r, call.criteria)
        /\ \A q \in Range(call.out.scenarioOut.rows) :
              \E r \in Range(call.out.regionOut.rows) : q["geometry"] = r["geometry"]
        /\ Len(call.out.scenarioOut.rows) <= Len(call.out.regionOut.rows)

Wit_C8_BoundaryRowKept ==
    /\ AttrRan
    /\ \A k \in {"subCs", "sectors", "flows"} : Truthy(call.criteria[k])
    /\ call.criteria.elevMin = PyInt(2)
    /\ call.criteria.elevMax = PyInt(2)
    /\ Len(call.out.regionOut.rows) = 2
    /\ Len(call.out.scenarioOut.rows) = 1
    /\ call.out.scenarioOut.rows[1]["elevMin"] = 2
    /\ call.out.scenarioOut.rows[1]["elevMax"] = 2
    /\ call.out.regionOut.rows[1]["sector"] = InputText.sNLower

\* The most recent call specifies a classification pair whose size class is
\* an integer.
PairGiven ==
    /\ call.active
    /\ Truthy(call.criteria.AvaDistributionPotential)
    /\ call.criteria.AvaSizePotential.t # "none"
    /\ SizeParses(call.criteria.AvaSizePotential)

RequestedSize == SizeRefOf(call.criteria.AvaSizePotential)

\* a column of the input table, the mobility codes under either spelling
HasColumn(c) ==
    \/ c \in call.input.columns
    \/ (c = "PPM" /\ "ppm" \in call.input.columns)
    \/ (c = "PEM" /\ "pem" \in call.input.columns)

\* the columns the classification of the requested size class reads
PairColumns == IF RequestedSize = 1 THEN {"modType"} ELSE JoinKeys

\* the attribute criteria the scenario specifies, with the column of each
AttrSpecified ==
    {c \in {"subC", "sector", "flow", "elevMin", "elevMax"} :
        CASE c = "subC" -> Truthy(call.criteria.subCs)
          [] c = "sector" -> Truthy(call.criteria.sectors)
          [] c = "flow" -> Truthy(call.criteria.flows)
          [] c = "elevMin" -> call.criteria.elevMin.t # "none"
          [] c = "elevMax" -> call.criteria.elevMax.t # "none"}

RegionSpecified ==
    {c \in {"LKGebietID", "LWDGebietID"} :
        IF c = "LKGebietID" THEN AsList(call.criteria.LKRegionID) # <<>>
        ELSE AsList(call.criteria.LwdRegionID) # <<>>}

MissingSpecified ==
    {c \in AttrSpecified \cup RegionSpecified \cup (IF PairGiven THEN PairColumns ELSE {}) :
        ~ HasColumn(c)}

\* C9 as stated: a specified criterion that references a column the table
\* does not have makes filterScenarioResults log it and return an empty table
\* without raising.
Claim_C9_MissingColumnEmpties ==
    (call.active /\ MissingSpecified # {}) =>
        /\ ~ call.out.raised
        /\ IsEmpty(call.out.result)
        /\ call.out.log # {}

MissingWarning(c) ==
    CASE c = "subC" -> "Filter subC requested, but column 'subC' not found."
      [] c = "sector" -> "Filter sector requested, but column 'sector' not found."
      [] c = "flow" -> "Filter flow requested, but column 'flow' not found."
      [] c = "elevMin" -> "Filter elevMin requested, but column 'elevMin' not found."
      [] c = "elevMax" -> "Filter elevMax requested, but column 'elevMax' not found."
      [] c = "LKGebietID" -> "Region filter requested (LK) but column 'LKGebietID' not found."
      [] c = "LWDGebietID" -> "Region filter requested (LWD) but column 'LWDGebietID' not found."

\* C9 as amended: a classification pair with an integer size class that needs
\* a column the table does not have (modType for size class 1, any of PPM,
\* PEM, rSize, modType otherwise) makes the call return an empty table without
\* raising and with a log entry; a region or attribute criterion whose column
\* is missing does not make the call raise and is logged with its warning
\* once its stage is reached, without emptying the result by itself.
Thm_C9_MissingJoinColumnEmpties ==
    /\ (PairGiven /\ \E c \in PairColumns : ~ HasColumn(c)) =>
          /\ ~ call.out.raised
          /\ IsEmpty(call.out.result)
          /\ call.out.log # {}
    /\ call.active =>
          \A c \in MissingSpecified \cap RegionSpecified :
              MissingWarning(c) \in call.out.log
    /\ call.active =>
          \A c \in MissingSpecified \cap AttrSpecified :
          /\ call.out.exit # "region-empty" => MissingWarning(c) \in call.out.log
          /\ (PairGiven \/ call.criteria.AvaSizePotential.t = "none") => ~ call.out.raised

Wit_C9_JoinColumnMissing ==
    /\ PairGiven
    /\ RequestedSize = 1
    /\ ~ HasColumn("modType")
    /\ call.out.exit = "no-modType"
    /\ IsEmpty(call.out.result)
    /\ ~ IsEmpty(call.out.scenarioOut)

\* C10: when the scenario specifies a hazard-potential set and an integer
\* reference size class and no legend row has one of the requested potentials
\* (lower-cased, trimmed, canonicalized) together with that size class, the
\* call returns an empty table and does not raise.
Thm_C10_LegendMissYieldsEmpty ==
    (PairGiven /\
        ~ \E r \in Range(legend.rows) :
              /\ Strip(Lower(r["AvaDistributionPotential"]))
                    \in Range(PotsOf(call.criteria.AvaDistributionPotential))
              /\ r["AvaSizePotential"] = RequestedSize)
    => /\ ~ call.out.raised
       /\ IsEmpty(call.out.result)

Wit_C10_LegendMissReached ==
    /\ PairGiven
    /\ call.out.exit = "legend-empty"
    /\ ~ IsEmpty(call.out.scenarioOut)
    /\ call.criteria.AvaDistributionPotential = PyList(<<sHigh>>)
    /\ RequestedSize = 4
    /\ legend = SmallLegend

\* The classification join of the most recent call ran: a pair with an
\* integer size class other than 1, a non-empty legend selection, and the
\* call reached the end of the function.
JoinRan ==
    /\ PairGiven
    /\ RequestedSize # 1
    /\ call.out.exit = "end"

\* the legend rows of the requested potentials and size class
SelectedLegendRows ==
    {r \in Range(legend.rows) :
        /\ Strip(Lower(r["AvaDistributionPotential"]))
              \in Range(PotsOf(call.criteria.AvaDistributionPotential))
        /\ r["AvaSizePotential"] = RequestedSize}

\* the data row has the quadruple of the legend row, a legend row tagged
\* "res / rel" standing for the two tags "res" and "rel"
QuadrupleMatches(row, r) ==
    /\ row["PPM"] = r["PPM"]
    /\ row["PEM"] = r["PEM"]
    /\ row["rSize"] = r["rSize"]
    /\ IF Strip(Lower(r["modType"])) = sResRel
       THEN Strip(Lower(row["modType"])) \in {sRes, sRel}
       ELSE Strip(Lower(row["modType"])) = Strip(Lower(r["modType"]))

Geometries(rows) == [k \in 1..Len(rows) |-> rows[k]["geometry"]]

\* C11: in the general classification case (size class other than 1, legend
\* selection non-empty) the rows that leave the join are exactly the rows
\* that entered it whose (PPM, PEM, rSize, modType) quadruple is the
\* quadruple of a selected legend row (labels compared lower-cased and
\* trimmed), a "res / rel" legend row counting as a "res" and a "rel" row,
\* each such row once and in the order of the data; a data row tagged
\* "res / rel" does not leave it.
Thm_C11_JoinKeepsExactlyMatchingRows ==
    JoinRan =>
        LET entered == call.out.scenarioOut.rows
            left == call.out.dedupIn.rows
            matching == SelectSeq(entered,
                            LAMBDA row : \E r \in SelectedLegendRows :
                                             QuadrupleMatches(row, r))
        IN  /\ SelectedLegendRows # {}
            /\ Geometries(left) = Geometries(matching)
            /\ \A k \in 1..Len(left) : Strip(Lower(left[k]["modType"])) # sResRel

Wit_C11_DoubleTagExpanded ==
    /\ JoinRan
    /\ legend = RawLegend
    /\ Len(call.out.scenarioOut.rows) = 2
    /\ call.out.scenarioOut.rows[1]["modType"] = sResRel
    /\ call.out.scenarioOut.rows[2]["modType"] = sRes
    /\ Geometries(call.out.dedupIn.rows) = <<2>>

\* The most recent call took the rel-only mode on a table that has the
\* columns the mode reads: size class 1 with a non-empty legend selection.
RelOnlyRan ==
    /\ PairGiven
    /\ RequestedSize = 1
    /\ call.out.exit \in {"end", "rel-empty"}
    /\ {"praID", "PEM", "rSize", "modType"} \subseteq call.input.columns

IsRel(row) == Strip(Lower(row["modType"])) = sRel

\* row a is preferred to row b: smaller PEM, or equal PEM and larger rSize
Preferred(a, b) ==
    \/ a["PEM"] < b["PEM"]
    \/ (a["PEM"] = b["PEM"] /\ a["rSize"] > b["rSize"])

\* C12: with size class 1 and a non-empty legend selection the result holds
\* only rows whose modType is "rel" (lower-cased and trimmed), is empty when
\* there are none, and otherwise holds exactly one row per praID that has a
\* rel row: a rel row of that praID to which no other rel row of the praID is
\* preferred (smallest PEM, then largest rSize).
Thm_C12_RelOnlyOnePerPraID ==
    RelOnlyRan =>
        LET entered == call.out.scenarioOut.rows
            rel == SelectSeq(entered, IsRel)
            out == call.out.result.rows
        IN  /\ ~ call.out.raised
            /\ \A k \in 1..Len(out) :
                  /\ IsRel(out[k])
                  /\ \E n \in 1..Len(rel) :
                        /\ rel[n]["geometry"] = out[k]["geometry"]
                        /\ rel[n]["praID"] = out[k]["praID"]
                        /\ rel[n]["PEM"] = out[k]["PEM"]
                        /\ rel[n]["rSize"] = out[k]["rSize"]
                  /\ \A n \in 1..Len(rel) :
                        rel[n]["praID"] = out[k]["praID"] => ~ Preferred(rel[n], out[k])
            /\ \A j, k \in 1..Len(out) : out[j]["praID"] = out[k]["praID"] => j = k
            /\ \A n \in 1..Len(rel) :
                  \E k \in 1..Len(out) : out[k]["praID"] = rel[n]["praID"]
            /\ (rel = <<>>) => call.out.exit = "rel-empty"

Wit_C12_TieOnPemBrokenBySize ==
    /\ RelOnlyRan
    /\ Len(call.out.scenarioOut.rows) = 2
    /\ call.out.scenarioOut.rows[1]["praID"] = call.out.scenarioOut.rows[2]["praID"]
    /\ IsRel(call.out.scenarioOut.rows[1])
    /\ IsRel(call.out.scenarioOut.rows[2])
    /\ call.out.scenarioOut.rows[1]["PEM"] = call.out.scenarioOut.rows[2]["PEM"]
    /\ call.out.scenarioOut.rows[1]["rSize"] < call.out.scenarioOut.rows[2]["rSize"]
    /\ Geometries(call.out.result.rows) = <<2>>

MetadataColumns == {"AvaDistributionPotential", "AvaSizePotential"}

\* the most recent call returned a table with rows
ReturnedRows == call.active /\ ~ call.out.raised /\ ~ IsEmpty(call.out.result)

\* C13 as stated: every non-empty table returned by filterScenarioResults
\* carries all columns of the input table plus the two metadata columns,
\* whether or not the scenario specifies the classification pair.
Claim_C13_MetadataAlwaysStamped ==
    ReturnedRows =>
        (call.input.columns \cup MetadataColumns) \subseteq call.out.result.columns

\* C13 as amended: a non-empty table returned for a scenario that specifies
\* both a hazard potential and a reference size class carries the columns of
\* the input table plus the two metadata columns, every row holding the
\* sorted, comma-joined potentials and the size class; a non-empty table
\* returned for a scenario that lacks one of the two carries exactly the
\* columns of the input table.
Thm_C13_MetadataStampedWithPair ==
    ReturnedRows =>
        LET out == call.out.result
        IN  /\ \A k \in 1..Len(out.rows) : DOMAIN out.rows[k] = out.columns
            /\ PairGiven =>
                  /\ out.columns = call.input.columns \cup MetadataColumns
                  /\ \A k \in 1..Len(out.rows) :
                        /\ out.rows[k]["AvaSizePotential"] = RequestedSize
                        /\ out.rows[k]["AvaDistributionPotential"] =
                              Join(<<",">>, SortedStrs(Range(
                                  PotsOf(call.criteria.AvaDistributionPotential))))
            /\ ~ PairGiven => out.columns = call.input.columns

Wit_C13_PairStamped ==
    /\ ReturnedRows
    /\ PairGiven
    /\ MetadataColumns \cap call.input.columns = {}
    /\ call.out.result.rows[1]["AvaDistributionPotential"] = sHigh
    /\ call.out.result.rows[1]["AvaSizePotential"] = 2

\* C14 as stated: rsize_from fails for every pair whose difference
\* PPM - PEM is not one of 0, 1, 2, 3, 4, and never returns a size index
\* for such a pair.
Claim_C14_RsizeRejectsOtherDifferences ==
    (rsizeCall.pc = "returned" /\ (rsizeCall.ppm - rsizeCall.pem) \notin 0..4) =>
        rsizeCall.raised

\* the runner holds the table built by avaPotMatrix
MatrixLoaded == legend.rows # <<>> /\ legend = avaPotMatrix

\* C15: every row of the table built by avaPotMatrix has PPM >= PEM with
\* PPM - PEM in 0..4, and its rSize is 5, 4, 3, 2, 1 for a difference of
\* 0, 1, 2, 3, 4.
Thm_C15_MatrixRowsSizeIndex ==
    MatrixLoaded =>
        \A k \in 1..Len(legend.rows) :
            LET row == legend.rows[k]
                d == row["PPM"] - row["PEM"]
            IN  /\ row["PPM"] >= row["PEM"]
                /\ d \in 0..4
                /\ row["rSize"] = 5 - d

Wit_C15_MatrixHasDifferenceThree ==
    /\ MatrixLoaded
    /\ call.active
    /\ \E k \in 1..Len(legend.rows) :
          /\ legend.rows[k]["PPM"] - legend.rows[k]["PEM"] = 3
          /\ legend.rows[k]["rSize"] = 2
    /\ \E k \in 1..Len(legend.rows) :
          /\ legend.rows[k]["PPM"] = legend.rows[k]["PEM"]
          /\ legend.rows[k]["rSize"] = 5

\* C16: no scenario filter run changes the legend it is given, so the table
\* of a call of avaPotMatrix made before the runs has the content of the
\* table of a call made after them.
Thm_C16_LegendNeverChanged ==
    [][legend' = legend /\ (MatrixLoaded => legend' = avaPotMatrix)]_vars

Wit_C16_MatrixSharedByTwoRuns ==
    /\ MatrixLoaded
    /\ pc = "done"
    /\ Len(results) = 2
    /\ ReachedLegend(call.criteria, call.out)

\* the list of the trimmed, non-empty, deduplicated tokens of a field that
\* is passed as a comma-separated string
RECURSIVE Deduplicated(_)
Deduplicated(l) ==
    IF l = <<>> THEN <<>>
    ELSE LET rest == Deduplicated(SubSeq(l, 1, Len(l) - 1))
         IN  IF l[Len(l)] \in Range(rest) THEN rest ELSE Append(rest, l[Len(l)])

TokenList(val) == IF val.t = "str" THEN PyList(Deduplicated(AsList(val))) ELSE val

ListValuedFields ==
    {"LKRegionID", "LwdRegionID", "subCs", "sectors", "flows", "AvaDistributionPotential"}

WithTokenLists(criteria) ==
    [k \in DOMAIN criteria |->
        IF k \in ListValuedFields THEN TokenList(criteria[k]) ELSE criteria[k]]

\* C17 as stated: for every list-valued field, filterScenarioResults gives
\* the same result for the comma-separated string as for the list of its
\* trimmed, non-empty, deduplicated tokens.
Claim_C17_StringAsTokenList ==
    call.active =>
        call.out.result \in
            {o.result : o \in filterScenarioResults(call.input,
                                                    WithTokenLists(call.criteria), legend)}

\* the most recent call requests the variant label, capitalized and padded
RequestsModerat ==
    /\ PairGiven
    /\ call.criteria.AvaDistributionPotential = PyList(<<InputText.sModeratRaw>>)

\* C18: the requested labels are lower-cased and trimmed and "moderat" is
\* replaced by "moderate" before the legend lookup: a scenario requesting
\* "Moderat " looks up the label "moderate", selects exactly the legend rows
\* of "moderate" with the requested size class, and returns what the scenario
\* requesting "moderate" returns.
Thm_C18_ModeratCanonicalized ==
    RequestsModerat =>
        LET asModerate == [call.criteria EXCEPT
                              !.AvaDistributionPotential = PyList(<<sModerate>>)]
            pots == PotsOf(call.criteria.AvaDistributionPotential)
        IN  /\ pots = <<sModerate>>
            /\ Range(LegSel(legend, pots, RequestedSize).rows) =
                  {r \in Range(LegAll(legend).rows) :
                      /\ r["AvaDistributionPotential"] = sModerate
                      /\ r["AvaSizePotential"] = RequestedSize}
            /\ call.out.result \in
                  {o.result : o \in filterScenarioResults(call.input, asModerate, legend)}

Wit_C18_ModeratSelectsRows ==
    /\ RequestsModerat
    /\ call.out.exit = "end"
    /\ ~ IsEmpty(call.out.result)
    /\ call.out.result.rows[1]["AvaDistributionPotential"] = sModerate

\* C19: normalizeAvaCols is idempotent: the table returned by a call made on
\* the table an earlier call returned has the column names and the cell
\* values of that table.
Thm_C19_NormalizeIdempotent ==
    normCall.count >= 2 =>
        /\ normCall.arg = normCall.prev
        /\ normCall.out.columns = normCall.prev.columns
        /\ normCall.out.rows = normCall.prev.rows

Wit_C19_RawTableNormalizedTwice ==
    /\ normCall.count = 2
    /\ "ppm" \in gdf0.columns
    /\ "PPM" \in normCall.out.columns
    /\ TextColumns(gdf0) = {"ppm", "subC"}
    /\ gdf0.rows[1]["flow"] = InputText.sDryPadded
    /\ normCall.out.rows[1]["flow"] = InputText.sDry
    /\ normCall.out.rows[1]["PPM"] = 2

\* C20 as stated: normalizeAvaCols leaves the table passed by the caller
\* unchanged, with the column names and cell values it had before the call,
\* whether or not a ppm/pem column has to be renamed.
Claim_C20_NormalizeLeavesArgument ==
    normCall.count >= 1 =>
        /\ normCall.argAfter.columns = normCall.arg.columns
        /\ TextColumns(normCall.argAfter) = TextColumns(normCall.arg)
        /\ normCall.argAfter.rows = normCall.arg.rows

\* ------------------------------------------------------------------ C21
\* the listed filters whose section holds an integer option that does not parse
UnparsableFilters ==
    {k \in 1..Len(mapper.cfg.sections) :
        /\ mapper.cfg.sections[k].present
        /\ \E o \in IntOptions : GetInt(mapper.cfg.sections[k][o]).warned}

ResultNames == {results[k].crit.name : k \in 1..Len(results)}

\* C21: a scenario whose section holds a numeric field (subC, elevMin,
\* elevMax or AvaSizePotential) that cannot be parsed as an integer is
\* skipped: once the run is over, no result has been produced for it.
Claim_C21_UnparsableScenarioSkipped ==
    (mapper.active /\ pc \in {"finished", "exit"}) =>
        \A k \in UnparsableFilters :
            ParseSection(mapper.cfg.sections[k]).name \notin ResultNames

\* ------------------------------------------------------------------ C22
RequiredColumns ==
    {"praID", "flow", "sector", "subC", "elevMin", "elevMax", "rSize",
     "LKGebietID", "LWDGebietID"}

\* C22: in runAvaScenMapper, when the loaded table lacks a required column,
\* the failure is reported and the run ends before runScenarioFilters is
\* called for any scenario and before any output is written.
Thm_C22_MissingColumnAbortsBeforeFiltering ==
    (mapper.active /\ RequiredColumns \ gdf0.columns # {}) =>
        /\ pc \in {"load", "aborted"}
        /\ ~ call.active
        /\ criteriaList = <<>>
        /\ results = <<>>
        /\ mapper.written = <<>>
        /\ pc = "aborted" =>
              /\ \A c \in RequiredColumns \ gdf0.columns :
                    [event |-> "Missing required columns", section |-> "", key |-> c]
                        \in mapper.log
              /\ \E e \in mapper.log :
                    e.event = "Step 17 aborted: input dataset incomplete or invalid."

\* a run with two listed filters has ended on a table without LWDGebietID and rSize
Wit_C22_AbortedOnMissingColumns ==
    /\ mapper.active
    /\ pc = "aborted"
    /\ {"LWDGebietID", "rSize"} \cap gdf0.columns = {}
    /\ Len(mapper.cfg.sections) = 2
    /\ mapper.written = <<>>

\* ------------------------------------------------------------------ C23
\* the row satisfies every attribute criterion whose column is among cols
SatisfiesPresent(row, criteria, cols) ==
    /\ (Truthy(criteria.subCs) /\ "subC" \in cols) =>
          row["subC"] \in Range(Items(criteria.subCs))
    /\ (Truthy(criteria.sectors) /\ "sector" \in cols) =>
          \E s \in Range(Items(criteria.sectors)) :
              Upper(Strip(row["sector"])) = Upper(Strip(s))
    /\ (Truthy(criteria.flows) /\ "flow" \in cols) =>
          \E s \in Range(Items(criteria.flows)) :
              Lower(Strip(row["flow"])) = Lower(Strip(s))
    /\ (criteria.elevMin.t # "none" /\ "elevMin" \in cols) =>
          row["elevMin"] >= criteria.elevMin.v
    /\ (criteria.elevMax.t # "none" /\ "elevMax" \in cols) =>
          row["elevMax"] <= criteria.elevMax.v

\* the attribute criteria of the most recent call whose column is absent
AttrSkipped == {c \in AttrSpecified : c \notin call.input.columns}

\* C23: a subC, sector, flow, elevMin or elevMax criterion whose column is
\* absent is warned about and skipped: it removes no row and the later stages
\* run; a classification whose table lacks one of PPM, PEM, rSize, modType
\* (for size class 1: lacks modType) abandons the scenario and returns an
\* empty table.
Thm_C23_SkipStageAbandonScenario ==
    /\ (call.active /\ call.out.exit # "region-empty" /\ AttrSkipped # {}) =>
          /\ ~ call.out.raised
          /\ \A c \in AttrSkipped : MissingWarning(c) \in call.out.log
          /\ \A r \in Range(call.out.regionOut.rows) :
                (\E q \in Range(call.out.scenarioOut.rows) : q["geometry"] = r["geometry"])
                    <=> SatisfiesPresent(r, call.criteria, call.input.columns)
          /\ ~ IsEmpty(call.out.scenarioOut) =>
                IF PairGiven
                THEN /\ call.out.exit \in {"end", "legend-empty", "join-missing",
                                           "no-modType", "rel-empty"}
                     /\ call.out.exit = "end" =>
                           MetadataColumns \subseteq call.out.result.columns
                ELSE /\ call.out.exit = "end"
                     /\ call.out.dedupIn.rows = call.out.scenarioOut.rows
    /\ (PairGiven /\ \E c \in PairColumns : ~ HasColumn(c)) =>
          /\ ~ call.out.raised
          /\ IsEmpty(call.out.result)
          /\ ~ IsEmpty(call.out.scenarioOut) =>
                call.out.exit \in {"legend-empty", "join-missing", "no-modType"}

\* one call on a table without the sector and PPM columns: the sector
\* criterion is skipped with both rows kept, the join abandons the scenario
Wit_C23_SectorSkippedJoinAbandoned ==
    /\ PairGiven
    /\ RequestedSize = 2
    /\ AttrSkipped = {"sector"}
    /\ ~ HasColumn("PPM")
    /\ Len(call.out.scenarioOut.rows) = 2
    /\ call.out.scenarioOut.rows[2]["subC"] = 2
    /\ call.out.exit = "join-missing"
    /\ IsEmpty(call.out.result)

\* the requested potentials as the classification stage normalizes them:
\* trimmed, lower-cased, blanks dropped, "moderat" read as "moderate"
RequestedLabels ==
    LET given == IF call.criteria.AvaDistributionPotential.t = "str"
                 THEN {call.criteria.AvaDistributionPotential.v}
                 ELSE Range(call.criteria.AvaDistributionPotential.v)
        norm == {Strip(Lower(p)) : p \in {q \in given : Strip(q) # <<>>}}
    IN  {IF n = sModerat THEN sModerate ELSE n : n \in norm}

\* C24: when the classification stage runs to its end and rows survive,
\* every surviving row carries in AvaDistributionPotential the normalized
\* requested potentials, each once, in ascending order, separated by commas,
\* and in AvaSizePotential the requested reference size class.
Thm_C24_SurvivorsStampedWithSortedPotentials ==
    (PairGiven /\ call.out.exit = "end" /\ ~IsEmpty(call.out.result)) =>
        \A r \in Range(call.out.result.rows) :
            LET parts == SplitComma(r["AvaDistributionPotential"])
            IN  /\ Range(parts) = RequestedLabels
                /\ \A a, b \in 1..Len(parts) : a < b => StrLess(parts[a], parts[b])
                /\ r["AvaSizePotential"] = RequestedSize

\* C24 witness: the request "moderate", "HIGH ", "high" for size class 2
\* leaves rows, all stamped "high,moderate" and 2.
Wit_C24_TwoPotentialsStamped ==
    /\ PairGiven
    /\ call.out.exit = "end"
    /\ Len(call.criteria.AvaDistributionPotential.v) = 3
    /\ ~IsEmpty(call.out.result)
    /\ \A r \in Range(call.out.result.rows) :
          /\ r["AvaDistributionPotential"] = sHigh \o <<",">> \o sModerate
          /\ r["AvaSizePotential"] = 2

\* C25: with the matrix built by avaPotMatrix, a scenario that requests a
\* hazard potential with reference size class 1 returns an empty table and
\* never reaches the rel-only branch: the legend selection is empty.
Thm_C25_SizeOneEmptyWithBuiltInMatrix ==
    (MatrixLoaded /\ PairGiven /\ RequestedSize = 1) =>
        /\ IsEmpty(call.out.result)
        /\ call.out.exit = "legend-empty"

\* C25 witness: the request "high" with size class 1 on a table holding a
\* release row ends at the empty legend selection.
Wit_C25_ReleaseRowsDroppedAtLegend ==
    /\ MatrixLoaded
    /\ PairGiven
    /\ RequestedSize = 1
    /\ \E r \in Range(call.input.rows) : r["modType"] = sRel
    /\ call.out.exit = "legend-empty"
    /\ IsEmpty(call.out.result)

\* the tables of the most recent call in the order of the stages, the
\* stages that were not reached left out
StageTables ==
    SelectSeq(<<call.input, call.out.regionIn, call.out.regionOut,
                call.out.scenarioOut, call.out.dedupIn, call.out.result>>,
              LAMBDA d : d.columns # {})

\* the rows of a table are pairwise different rows of the input table
DistinctInputRows(d) ==
    /\ Cardinality({r["geometry"] : r \in Range(d.rows)}) = Len(d.rows)
    /\ \A r \in Range(d.rows) :
          \E q \in Range(call.input.rows) : q["geometry"] = r["geometry"]

\* C26: every row a call returns is a row of the input table and no two
\* returned rows are the same input row; from one stage to the next the
\* rows are a subset of the rows before and the row count does not grow.
Thm_C26_NoStageDuplicatesRows ==
    (call.active /\ ~ call.out.raised) =>
        /\ DistinctInputRows(call.out.result)
        /\ \A k \in 1..Len(StageTables) : DistinctInputRows(StageTables[k])
        /\ \A k \in 1..(Len(StageTables) - 1) :
              /\ Len(StageTables[k + 1].rows) <= Len(StageTables[k].rows)
              /\ {r["geometry"] : r \in Range(StageTables[k + 1].rows)}
                    \subseteq {r["geometry"] : r \in Range(StageTables[k].rows)}

\* C26 witness: the potentials "high" and "moderate" both allow the key of a
\* row that the join keeps, and the row is returned once.
Wit_C26_KeyAllowedTwiceRowKeptOnce ==
    /\ JoinRan
    /\ ~ IsEmpty(call.out.result)
    /\ \E r \in Range(call.out.result.rows) :
          Cardinality({l \in Range(LegAll(legend).rows) :
                          /\ l["AvaSizePotential"] = RequestedSize
                          /\ l["AvaDistributionPotential"] \in RequestedLabels
                          /\ l["PPM"] = r["PPM"] /\ l["PEM"] = r["PEM"]
                          /\ l["rSize"] = r["rSize"]
                          /\ NormStr(l["modType"]) \in {r["modType"], sResRel}}) >= 2

\* C27: a row that the join against the matrix of avaPotMatrix keeps has
\* PPM >= PEM and the rSize the matrix assigns to PPM - PEM; a row whose
\* rSize is another value is not in the result.
Thm_C27_JoinedRowsCarryMatrixSizeIndex ==
    (MatrixLoaded /\ JoinRan) =>
        \A r \in Range(call.out.result.rows) :
            /\ r["PPM"] >= r["PEM"]
            /\ r["PPM"] - r["PEM"] \in 0..4
            /\ r["rSize"] = 5 - (r["PPM"] - r["PEM"])

\* C27 witness: of two rows with the codes 5 and 2, the one with rSize 2 is
\* returned and the one with rSize 5 is not.
Wit_C27_DisagreeingRowDropped ==
    /\ MatrixLoaded
    /\ JoinRan
    /\ \E q \in Range(call.input.rows) :
          q["PPM"] = 5 /\ q["PEM"] = 2 /\ q["rSize"] = 5
    /\ \E r \in Range(call.out.result.rows) :
          r["PPM"] = 5 /\ r["PEM"] = 2 /\ r["rSize"] = 2
    /\ \A r \in Range(call.out.result.rows) : r["rSize"] # 5

\* the most recent call ran to its end with the single-result flag off
FlagOffRan ==
    /\ call.active
    /\ ~ call.criteria.applySingleRsizeRule
    /\ call.out.exit = "end"

\* the rows that passed the region and attribute filters and satisfy the
\* classification predicate of the scenario
PassedAllPredicates ==
    SelectSeq(call.out.scenarioOut.rows,
              LAMBDA row :
                  IF ~ PairGiven THEN TRUE
                  ELSE IF RequestedSize = 1 THEN IsRel(row)
                  ELSE \E r \in SelectedLegendRows : QuadrupleMatches(row, r))

\* C28 as stated: with applySingleRsizeRule false the result holds every row
\* that passed the region, attribute and classification predicates, in the
\* rel-only mode of size class 1 as well.
Claim_C28_FlagOffKeepsEveryRow ==
    FlagOffRan =>
        Range(Geometries(call.out.result.rows)) = Range(Geometries(PassedAllPredicates))

\* C28 as amended: with applySingleRsizeRule false Section 4 removes no row
\* and the result is the table that left the classification stage.  Outside
\* the rel-only mode, and in it on a table without praID, that is every row
\* that passed the predicates; in the rel-only mode on a table with praID it
\* is one rel row for each praID that has one.
Thm_C28_FlagOffSkipsSectionFourOnly ==
    FlagOffRan =>
        /\ call.out.result = call.out.dedupIn
        /\ Range(Geometries(call.out.result.rows))
              \subseteq Range(Geometries(PassedAllPredicates))
        /\ IF PairGiven /\ RequestedSize = 1 /\ "praID" \in call.input.columns
           THEN /\ \A j, k \in 1..Len(call.out.result.rows) :
                      call.out.result.rows[j]["praID"] = call.out.result.rows[k]["praID"]
                          => j = k
                /\ {r["praID"] : r \in Range(call.out.result.rows)}
                      = {r["praID"] : r \in Range(PassedAllPredicates)}
           ELSE Geometries(call.out.result.rows) = Geometries(PassedAllPredicates)

\* C28 witness: with the flag off, two rows of one release area that match
\* the legend of size class 2 are both returned.
Wit_C28_GeneralModeKeepsBothRows ==
    /\ FlagOffRan
    /\ PairGiven
    /\ RequestedSize = 2
    /\ JoinKeys \subseteq call.input.columns
    /\ "praID" \in call.input.columns
    /\ Len(call.out.result.rows) = 2
    /\ call.out.result.rows[1]["praID"] = call.out.result.rows[2]["praID"]
    /\ call.out.result.rows[1]["modType"] = call.out.result.rows[2]["modType"]
    /\ call.out.result.rows[1]["rSize"] # call.out.result.rows[2]["rSize"]

\* The region stage of the most recent call ran with regionMode "and", both
\* id sets non-empty and the column of exactly one region scheme in the table.
RegionAndOneColumn ==
    /\ call.active
    /\ AsList(call.criteria.LKRegionID) # <<>>
    /\ AsList(call.criteria.LwdRegionID) # <<>>
    /\ RegionModeOf(call.criteria) = sAnd
    /\ Cardinality({"LKGebietID", "LWDGebietID"} \cap call.out.regionIn.columns) = 1

\* C29: with regionMode "and", both id sets non-empty and the column of one
\* scheme absent, the rows that leave the region stage are exactly the rows
\* with the membership of the scheme whose column is present, in the order
\* of the table, and the absent column is reported with a warning.
Thm_C29_AndWithAbsentColumnUsesOtherScheme ==
    RegionAndOneColumn =>
        IF "LKGebietID" \in call.out.regionIn.columns
        THEN /\ call.out.regionOut.rows = SelectSeq(call.out.regionIn.rows, InLk)
             /\ "Region filter requested (LWD) but column 'LWDGebietID' not found."
                   \in call.out.log
        ELSE /\ call.out.regionOut.rows = SelectSeq(call.out.regionIn.rows, InLwd)
             /\ "Region filter requested (LK) but column 'LKGebietID' not found."
                   \in call.out.log

\* C29 witness: without the column LWDGebietID, "and" keeps a row on its LK
\* membership alone and drops a row that has none.
Wit_C29_KeptOnSingleMembership ==
    /\ RegionAndOneColumn
    /\ "LKGebietID" \in call.out.regionIn.columns
    /\ Len(call.out.regionIn.rows) = 2
    /\ Len(call.out.regionOut.rows) = 1
    /\ InLk(call.out.regionOut.rows[1])

====
